---- MODULE Spec2Model ----
(***************************************************************************)
(* Model of the ingenialink network sessions:                              *)
(*   - the serial session engine (src/ingenialink/net.c): caller threads   *)
(*     running il_net__read / il_net__write / il_net_axes_list_get, the    *)
(*     listener thread, il_net_destroy, and the statusword subscriber      *)
(*     registry;                                                           *)
(*   - the TCP session engine (src/ingenialink/eth/net.c): net_send /      *)
(*     net_recv with the CRC-CCITT check, il_eth_net__read/__write, the    *)
(*     polling listener and il_net_reconnect.                              *)
(*   - the device monitor (il_net_dev_mon_start / _stop of both files);    *)
(*   - the labels dictionary (src/ingenialink/registers.c) on top of the   *)
(*     khash string table.                                                 *)
(* The variable variant says which part a behaviour is about: SpecSubs     *)
(* (the registry), SpecSer (the serial session), SpecEth (the TCP          *)
(* session), SpecMon (the monitor) and SpecLab (the labels) are the        *)
(* restrictions of Spec to one value of it.                                *)
(* SpecSerFair is SpecSer under fair scheduling, for the liveness of the   *)
(* serial calls.                                                           *)
(***************************************************************************)
EXTENDS Integers, Sequences, FiniteSets, TLC

(***************************************************************************)
(* Bounds of the model.                                                    *)
(***************************************************************************)
\* cap on the number of registered statusword subscribers
MaxSubs == 3
\* initial capacity of the subscriber array (net.h value, scaled down)
SW_SUBS_SZ_DEF == 1
\* sizeof(il_net_sw_subscriber_t): uint8_t id, cb pointer, ctx pointer
SIZEOF_SUBS == 24

AxisIds == 1..2
Cbs == 1..2

(***************************************************************************)
(* Variables of the subscriber registry and of the serial session.         *)
(***************************************************************************)
VARIABLES
    sw_subs,    \* the registry
    calls,      \* callbacks invoked by the step just taken: <<[cb, sw], ...>>
    disp,       \* the frame dispatched by the step just taken (or NoDisp)
    sub_r,      \* return value of the latest il_net__sw_subscribe
    hist        \* subscribe/unsubscribe/dispatch sequence being observed

subVars == <<sw_subs, calls, disp, sub_r, hist>>

VARIABLES
    pc,         \* pc[t]: position of caller t
    call,       \* call[t]: arguments of the read being started
    rv,         \* rv[t]: local r of the call in progress
    sbuf,       \* bytes stored through net->sync.buf since the slot was armed
    srecvd,     \* value stored through net->sync.recvd since then
    slst,       \* axis list of the scan in progress, newest first
    lock,       \* net->lock (owner, 0 = free)
    sync_lock,  \* net->sync.lock (owner, 0 = free)
    net_state,  \* net->state
    sync,       \* net->sync: id, idx, sidx, sz, buf, recvd, complete
    woken,      \* a signal on net->sync.cond has reached the current waiter
    lpc,        \* position of the listener thread
    rbuf,       \* complete frames in the listener's reception buffer
    stop,       \* net->stop
    dpc,        \* position of the thread running il_net_destroy
    ret,        \* the call that returned in the step just taken (or NoRet)
    nsig,       \* osal_cond_signal calls since the slot was last armed
    late,       \* a response met a complete slot since the slot was last armed
    stale_write,    \* process_sync stored through sync.buf after the call
                    \* that owns the buffer had returned
    cb_after_close, \* a statusword callback ran after il_net_destroy returned
    state_lock, \* net->state_lock (owner, 0 = free)
    ev,         \* what the transport or the condition variable gave in the
                \* step just taken ("none" otherwise)
    found,      \* ids given to on_found by the scan in progress, oldest first
    decoded     \* ids of the responses the listener decoded while the scan
                \* in progress was open, oldest first

serVars == <<pc, call, rv, sbuf, srecvd, slst, lock, sync_lock, net_state, sync,
             woken, lpc, rbuf, stop, dpc, ret, nsig, late, stale_write,
             cb_after_close, state_lock, ev, found, decoded>>

(***************************************************************************)
(* Variables of the TCP session (src/ingenialink/eth/net.c).               *)
(***************************************************************************)
VARIABLES
    epc,            \* epc[t]: position of caller t in il_eth_net__read/__write
    eargs,          \* eargs[t]: op, subnode, address, sz, data of the call
    elock,          \* this->net.lock (0 = free, else the thread that owns it)
    elpc,           \* position of listener_eth
    error_count,    \* listener_eth: error_count
    lbuf,           \* listener_eth: the value held by the local uint16_t buf
    buf_addr,       \* what converting &buf to uint16_t yields
    estop,          \* this->stop
    stop_reconnect, \* this->stop_reconnect
    rc_r,           \* il_net_reconnect: r
    tx,             \* the frame handed to send() by the step just taken
    eret,           \* the call that returned in the step just taken
    poll,           \* outcome of the poll of the current listener iteration
    fails_row,      \* polls that failed in a row since the last (re)start
    cancel,         \* reconnect iterations begun since stop_reconnect was set
                    \* during il_net_reconnect (-1: it was not)
    crc_failed      \* the latest completed call failed on the CRC check

ethVars == <<epc, eargs, elock, elpc, error_count, lbuf, buf_addr, estop,
             stop_reconnect, rc_r, tx, eret, poll, fails_row, cancel,
             crc_failed>>

(***************************************************************************)
(* Variables of the device monitor (il_net_dev_mon_t, il_eth_net_dev_mon_t) *)
(* and of a labels dictionary (il_reg_labels_t).                           *)
(***************************************************************************)
VARIABLES
    mon,        \* the monitor object: kind, running, ctx, on_evt, mon
    mon_ret,    \* the monitor call made by the step just taken
    mon_live,   \* the latest successful start has not been followed by a stop
    mon_inits,  \* monitors that ser_dev_monitor_init has handed out so far
    labels,     \* labels->h, the hash table
    lab_map,    \* for each language the label given by its latest set, or
                \* NoLabel when it was never set or deleted since
    lab_order,  \* the languages present, in the order they were first set
    lab_ret     \* the labels call made by the step just taken

auxVars == <<mon, mon_ret, mon_live, mon_inits, labels, lab_map, lab_order,
             lab_ret>>

\* which part the run is about: "subs", "serial", "tcp", "mon" or "labels"
\* ("crashed" once the process has been ended)
VARIABLE variant

vars == <<subVars, serVars, ethVars, auxVars, variant>>

(***************************************************************************)
(* Bit arithmetic on unsigned integers.                                    *)
(***************************************************************************)
RECURSIVE BitXor(_, _)
BitXor(a, b) ==
    IF a = 0 THEN b
    ELSE IF b = 0 THEN a
    ELSE (((a % 2) + (b % 2)) % 2) + 2 * BitXor(a \div 2, b \div 2)

RECURSIVE BitAnd(_, _)
BitAnd(a, b) ==
    IF a = 0 \/ b = 0 THEN 0
    ELSE ((a % 2) * (b % 2)) + 2 * BitAnd(a \div 2, b \div 2)

U16(x) == x % 65536

\* __swap_16: exchange the two bytes of a 16-bit value
swap_16(x) == (x % 256) * 256 + (x \div 256)

\* *(uint16_t *)p on the little-endian host: p[0] is the low byte
LoadU16(bytes) == bytes[1] + 256 * bytes[2]

(***************************************************************************)
(* Serial profile: decoded frames.                                         *)
(***************************************************************************)
STATUSWORD_IDX == 24641
STATUSWORD_SIDX == 0
UARTCFG_ID_IDX == 8192
UARTCFG_ID_SIDX == 1

\* statusword responses, for the registry alone
SwFrames ==
    [id : AxisIds, idx : {STATUSWORD_IDX}, sidx : {STATUSWORD_SIDX}, sz : {2},
     data : {<<18, 52>>, <<2, 55>>}, resp : {TRUE}]

\* frames the framer can hand to process_rbuf once complete
SerFrames ==
    [id : AxisIds, idx : {STATUSWORD_IDX}, sidx : {STATUSWORD_SIDX}, sz : {2},
     data : {<<18, 52>>}, resp : {TRUE}]
    \cup
    { [id |-> i, idx |-> UARTCFG_ID_IDX, sidx |-> UARTCFG_ID_SIDX, sz |-> 1,
       data |-> <<i>>, resp |-> TRUE] : i \in AxisIds }
    \cup
    { [id |-> 1, idx |-> STATUSWORD_IDX, sidx |-> STATUSWORD_SIDX, sz |-> 2,
       data |-> <<18, 52>>, resp |-> FALSE] }

(***************************************************************************)
(* Statusword subscriber registry (net->sw_subs).                          *)
(*   subs  : the memory cells at net->sw_subs.subs[0..]; cell i of the C   *)
(*           array is subs[i + 1]                                          *)
(*   cnt   : number of subscribers                                         *)
(*   sz    : the recorded capacity                                         *)
(*   alloc : the number of entries the allocation really holds             *)
(***************************************************************************)
Entry == [id : 0..2, cb : 0..2]
NoEntry == [id |-> 0, cb |-> 0]

\* il_net_create, lines 418-432
RegistryInit ==
    [subs |-> [i \in 1..MaxSubs |-> NoEntry], cnt |-> 0,
     sz |-> SW_SUBS_SZ_DEF, alloc |-> SW_SUBS_SZ_DEF]

\* number of entries registered for id among the first cnt cells
NMatching(reg, id) ==
    Cardinality({i \in 1..reg.cnt : reg.subs[i].id = id})

\* il_net__sw_subscribe: the registry after the call and the value returned.
\* mem_ok is the outcome of realloc.  The new size is computed in bytes and
\* that byte count is what the code stores in sw_subs.sz (line 330).
sw_subscribe(reg, id, cb, mem_ok) ==
    LET grow   == reg.cnt = reg.sz
        bytes  == 2 * reg.sz * SIZEOF_SUBS
        grown  == IF grow
                  THEN [reg EXCEPT !.sz = bytes, !.alloc = bytes \div SIZEOF_SUBS]
                  ELSE reg
    IN  IF grow /\ ~mem_ok
        THEN [reg |-> reg, r |-> "IL_ENOMEM"]
        ELSE [reg |-> [grown EXCEPT !.subs[reg.cnt + 1] = [id |-> id, cb |-> cb],
                                    !.cnt = reg.cnt + 1],
              r |-> "OK"]

\* il_net__sw_unsubscribe: the first entry with this id is overwritten by the
\* last entry and the count decreases; nothing happens when no entry matches.
sw_unsubscribe(reg, id) ==
    LET hits == {i \in 1..reg.cnt : reg.subs[i].id = id}
    IN  IF hits = {} THEN reg
        ELSE LET i == CHOOSE k \in hits : \A j \in hits : k <= j
             IN  [reg EXCEPT !.subs[i] = reg.subs[reg.cnt], !.cnt = reg.cnt - 1]

\* serial process_statusword: the callbacks invoked, in order, for one frame
process_statusword(reg, frame) ==
    IF frame.idx = STATUSWORD_IDX /\ frame.sidx = STATUSWORD_SIDX
    THEN LET id == frame.id
             sw == swap_16(LoadU16(frame.data))
             hit(e) == e.id = id
             sel == SelectSeq(SubSeq(reg.subs, 1, reg.cnt), hit)
         IN  [k \in 1..Len(sel) |-> [cb |-> sel[k].cb, sw |-> sw]]
    ELSE <<>>

\* no frame was dispatched
NoDisp == [id |-> 0, idx |-> 0, sidx |-> 0, sz |-> 0, data |-> <<>>,
           resp |-> FALSE]

NoHist == [phase |-> "none", id |-> 0, cnt0 |-> 0, n0 |-> 0]

SubsInit ==
    /\ sw_subs = RegistryInit
    /\ calls = <<>>
    /\ disp = NoDisp
    /\ sub_r = "OK"
    /\ hist = NoHist

\* a caller subscribes (cap: MaxSubs entries)
il_net__sw_subscribe(id, cb, mem_ok) ==
    /\ variant = "subs"
    /\ sw_subs.cnt < MaxSubs
    /\ LET res == sw_subscribe(sw_subs, id, cb, mem_ok)
       IN  /\ sw_subs' = res.reg
           /\ sub_r' = res.r
           /\ hist' = IF res.r = "OK"
                      THEN [phase |-> "sub", id |-> id, cnt0 |-> sw_subs.cnt,
                            n0 |-> NMatching(sw_subs, id)]
                      ELSE NoHist
    /\ calls' = <<>> /\ disp' = NoDisp
    /\ UNCHANGED <<serVars, ethVars, auxVars, variant>>

\* a caller unsubscribes
il_net__sw_unsubscribe(id) ==
    /\ variant = "subs"
    /\ sw_subs' = sw_unsubscribe(sw_subs, id)
    /\ hist' = IF hist.phase = "sub" /\ hist.id = id
               THEN [hist EXCEPT !.phase = "unsub"]
               ELSE NoHist
    /\ calls' = <<>> /\ disp' = NoDisp
    /\ UNCHANGED sub_r
    /\ UNCHANGED <<serVars, ethVars, auxVars, variant>>

\* process_rbuf, lines 145-152, for one complete frame (registry part)
Dispatch(frame) ==
    /\ variant = "subs"
    /\ calls' = IF frame.resp THEN process_statusword(sw_subs, frame) ELSE <<>>
    /\ disp' = frame
    /\ hist' = IF hist.phase = "unsub" /\ hist.id = frame.id /\ frame.resp
                  /\ frame.idx = STATUSWORD_IDX /\ frame.sidx = STATUSWORD_SIDX
               THEN [hist EXCEPT !.phase = "disp"]
               ELSE NoHist
    /\ UNCHANGED <<sw_subs, sub_r>>
    /\ UNCHANGED <<serVars, ethVars, auxVars, variant>>

\* A cell past the end of the allocation belongs to another heap object:
\* whoever owns it may overwrite what il_net__sw_subscribe stored there.
HeapReuse ==
    /\ variant = "subs"
    /\ \E i \in 1..sw_subs.cnt, e \in Entry :
          /\ i > sw_subs.alloc
          /\ e # sw_subs.subs[i]
          /\ sw_subs' = [sw_subs EXCEPT !.subs[i] = e]
    /\ calls' = <<>> /\ disp' = NoDisp
    /\ UNCHANGED <<sub_r, hist>>
    /\ UNCHANGED <<serVars, ethVars, auxVars, variant>>

NextSubsOps ==
    \/ \E id \in AxisIds, cb \in Cbs, ok \in BOOLEAN : il_net__sw_subscribe(id, cb, ok)
    \/ \E id \in AxisIds : il_net__sw_unsubscribe(id)
    \/ \E f \in SwFrames \cup SerFrames : Dispatch(f)
    \/ HeapReuse

(***************************************************************************)
(* Serial session (src/ingenialink/net.c).                                 *)
(* Threads: the callers 1..NCallers, the listener, and the thread that     *)
(* calls il_net_destroy.  A lock variable holds its owner (0 = free).      *)
(* ret, calls, disp and ev describe the step just taken: every step that  *)
(* does not return from a call, dispatch, or call the transport or the     *)
(* condition variable clears them.                                         *)
(***************************************************************************)
\* number of caller threads
NCallers == 2
\* number of responses the device sends to one broadcast of the axis scan
MaxFound == 2

Callers == 1..NCallers
\* the listener thread, as an owner of a lock
ListenerThread == NCallers + 1

\* (id, idx, sidx, sz) of the reads the callers issue: the statusword of
\* axis 1 into a buffer of 4 bytes and into one of 1 byte
ReadArgs ==
    { [id |-> 1, idx |-> STATUSWORD_IDX, sidx |-> STATUSWORD_SIDX, sz |-> 4],
      [id |-> 1, idx |-> STATUSWORD_IDX, sidx |-> STATUSWORD_SIDX, sz |-> 1] }
NoArgs == [id |-> 0, idx |-> 0, sidx |-> 0, sz |-> 0]

IdFrames == {f \in SerFrames : f.idx = UARTCFG_ID_IDX}

\* what one ser_read can add to the reception buffer, as complete frames
RxBatches ==
    { <<f>> : f \in SerFrames } \cup { <<f, g>> : f \in IdFrames, g \in IdFrames }

NumId(batch) == Cardinality({k \in 1..Len(batch) : batch[k] \in IdFrames})

NoRet == [t |-> 0, op |-> "none", r |-> "OK", buf |-> <<>>, recvd |-> 0,
          lst |-> <<>>]
Returned(t, op, r, buf, n, l) ==
    [t |-> t, op |-> op, r |-> r, buf |-> buf, recvd |-> n, lst |-> l]

\* registry of the serial session in SpecSer: two subscribers, ids 1 and 2
SerRegistry ==
    sw_subscribe(sw_subscribe(RegistryInit, 1, 1, TRUE).reg, 2, 2, TRUE).reg

\* il_net_create, lines 401-416 and 471
SerInit ==
    /\ pc = [t \in Callers |-> "idle"]
    /\ call = [t \in Callers |-> NoArgs]
    /\ rv = [t \in Callers |-> "OK"]
    /\ sbuf = <<>>
    /\ srecvd = 0
    /\ slst = <<>>
    /\ lock = 0
    /\ sync_lock = 0
    /\ net_state = "OPERATIVE"
    /\ sync = [id |-> 0, idx |-> 0, sidx |-> 0, sz |-> 0, buf |-> 0,
               recvd |-> FALSE, complete |-> TRUE]
    /\ woken = FALSE
    /\ lpc = "loop"
    /\ rbuf = <<>>
    /\ stop = 0
    /\ dpc = "idle"
    /\ ret = NoRet
    /\ nsig = 0
    /\ late = FALSE
    /\ stale_write = FALSE
    /\ cb_after_close = FALSE
    /\ state_lock = 0
    /\ ev = "none"
    /\ found = <<>>
    /\ decoded = <<>>

\* how osal_cond_wait can end: signalled, timed out, failed, or woken with
\* no signal (a spurious wake-up, which condition variables allow)
WaitEnds == {"signal", "timeout", "fail", "spurious"}

\* il_net_state_get, lines 544-548: the state, read under state_lock; the
\* call goes through once the lock is free
il_net_state_get == net_state

(***************************************************************************)
(* il_net__read, one action per blocking point.                            *)
(***************************************************************************)

\* seeded fault for C12: il_net__read without the check of the session state
r_state_unchecked(t, a) ==
    /\ variant = "serial"
    /\ pc[t] = "idle" /\ dpc = "idle"
    /\ state_lock = 0
    /\ pc' = [pc EXCEPT ![t] = "r_lock"]
    /\ call' = [call EXCEPT ![t] = a]
    /\ ret' = NoRet
    /\ calls' = <<>>
    /\ disp' = NoDisp
    /\ ev' = "none"
    /\ UNCHANGED <<rv, sbuf, srecvd, slst, lock, sync_lock, net_state,
                   sync, woken, lpc, rbuf, stop, dpc, nsig, late,
                   stale_write, cb_after_close, state_lock, found,
                   decoded, sw_subs, sub_r, hist, ethVars, auxVars,
                   variant>>

\* lines 253-257: entry and state check; a new call starts only while the
\* session has not been handed to il_net_destroy
r_state(t, a) ==
    /\ variant = "serial"
    /\ pc[t] = "idle" /\ dpc = "idle"
    /\ state_lock = 0
    /\ IF il_net_state_get # "OPERATIVE"
       THEN /\ ret' = Returned(t, "read", "IL_ESTATE", <<>>, 0, <<>>)
            /\ UNCHANGED <<pc, call>>
       ELSE /\ pc' = [pc EXCEPT ![t] = "r_lock"]
            /\ call' = [call EXCEPT ![t] = a]
            /\ ret' = NoRet
    /\ calls' = <<>>
    /\ disp' = NoDisp
    /\ ev' = "none"
    /\ UNCHANGED <<rv, sbuf, srecvd, slst, lock, sync_lock, net_state,
                   sync, woken, lpc, rbuf, stop, dpc, nsig, late,
                   stale_write, cb_after_close, state_lock, found,
                   decoded, sw_subs, sub_r, hist, ethVars, auxVars,
                   variant>>

\* line 259: osal_mutex_lock(net->lock)
r_lock(t) ==
    /\ variant = "serial"
    /\ pc[t] = "r_lock" /\ lock = 0
    /\ lock' = t
    /\ pc' = [pc EXCEPT ![t] = "r_reg"]
    /\ ret' = NoRet
    /\ calls' = <<>>
    /\ disp' = NoDisp
    /\ ev' = "none"
    /\ UNCHANGED <<call, rv, sbuf, srecvd, slst, sync_lock, net_state,
                   sync, woken, lpc, rbuf, stop, dpc, nsig, late,
                   stale_write, cb_after_close, state_lock, found,
                   decoded, sw_subs, sub_r, hist, ethVars, auxVars,
                   variant>>

\* lines 262-270: take sync.lock and register the synchronous transfer
r_reg(t) ==
    /\ variant = "serial"
    /\ pc[t] = "r_reg" /\ sync_lock = 0
    /\ sync_lock' = t
    /\ sync' = [id |-> call[t].id, idx |-> call[t].idx, sidx |-> call[t].sidx,
                sz |-> call[t].sz, buf |-> t, recvd |-> TRUE,
                complete |-> FALSE]
    /\ sbuf' = <<>> /\ srecvd' = 0
    /\ nsig' = 0 /\ late' = FALSE
    /\ call' = [call EXCEPT ![t] = NoArgs]
    /\ pc' = [pc EXCEPT ![t] = "r_send"]
    /\ ret' = NoRet
    /\ calls' = <<>>
    /\ disp' = NoDisp
    /\ ev' = "none"
    /\ UNCHANGED <<rv, slst, lock, net_state, woken, lpc, rbuf, stop,
                   dpc, stale_write, cb_after_close, state_lock, found,
                   decoded, sw_subs, sub_r, hist, ethVars, auxVars,
                   variant>>

\* lines 273-281: ser_write of the read petition; sent is its outcome
r_send(t, sent) ==
    /\ variant = "serial"
    /\ pc[t] = "r_send"
    /\ ev' = IF sent THEN "sent" ELSE "send_failed"
    /\ IF sent
       THEN /\ sync_lock' = 0
            /\ pc' = [pc EXCEPT ![t] = "r_relock"]
            /\ rv' = rv
       ELSE /\ rv' = [rv EXCEPT ![t] = "SER_ERR"]
            /\ pc' = [pc EXCEPT ![t] = "r_unlock"]
            /\ sync_lock' = sync_lock
    /\ ret' = NoRet
    /\ calls' = <<>>
    /\ disp' = NoDisp
    /\ UNCHANGED <<call, sbuf, srecvd, slst, lock, net_state, sync,
                   woken, lpc, rbuf, stop, dpc, nsig, late, stale_write,
                   cb_after_close, state_lock, found, decoded, sw_subs,
                   sub_r, hist, ethVars, auxVars, variant>>

\* lines 284-297: retake sync.lock; wait on the condition unless complete
\* (osal_cond_wait releases sync.lock while it blocks)
r_relock(t) ==
    /\ variant = "serial"
    /\ pc[t] = "r_relock" /\ sync_lock = 0
    /\ IF ~sync.complete
       THEN /\ pc' = [pc EXCEPT ![t] = "r_wait"]
            /\ woken' = FALSE
            /\ UNCHANGED <<sync_lock, rv>>
       ELSE /\ pc' = [pc EXCEPT ![t] = "r_unlock"]
            /\ sync_lock' = t
            /\ rv' = [rv EXCEPT ![t] = "OK"]
            /\ woken' = woken
    /\ ret' = NoRet
    /\ calls' = <<>>
    /\ disp' = NoDisp
    /\ ev' = "none"
    /\ UNCHANGED <<call, sbuf, srecvd, slst, lock, net_state, sync, lpc,
                   rbuf, stop, dpc, nsig, late, stale_write,
                   cb_after_close, state_lock, found, decoded, sw_subs,
                   sub_r, hist, ethVars, auxVars, variant>>

\* lines 287-294: osal_cond_wait ends; 0 is returned for a signal and for a
\* spurious wake-up alike, and the code does not look at sync.complete again
r_wait(t, how) ==
    /\ variant = "serial"
    /\ pc[t] = "r_wait"
    /\ how = "signal" => woken
    /\ ev' = how
    /\ rv' = [rv EXCEPT ![t] = CASE how \in {"signal", "spurious"} -> "OK"
                                 [] how = "timeout" -> "IL_ETIMEDOUT"
                                 [] OTHER -> "IL_EFAIL"]
    /\ pc' = [pc EXCEPT ![t] = "r_wake"]
    /\ woken' = FALSE
    /\ ret' = NoRet
    /\ calls' = <<>>
    /\ disp' = NoDisp
    /\ UNCHANGED <<call, sbuf, srecvd, slst, lock, sync_lock, net_state,
                   sync, lpc, rbuf, stop, dpc, nsig, late, stale_write,
                   cb_after_close, state_lock, found, decoded, sw_subs,
                   sub_r, hist, ethVars, auxVars, variant>>

\* osal_cond_wait retakes sync.lock before it returns
r_wake(t) ==
    /\ variant = "serial"
    /\ pc[t] = "r_wake" /\ sync_lock = 0
    /\ sync_lock' = t
    /\ pc' = [pc EXCEPT ![t] = "r_unlock"]
    /\ ret' = NoRet
    /\ calls' = <<>>
    /\ disp' = NoDisp
    /\ ev' = "none"
    /\ UNCHANGED <<call, rv, sbuf, srecvd, slst, lock, net_state, sync,
                   woken, lpc, rbuf, stop, dpc, nsig, late, stale_write,
                   cb_after_close, state_lock, found, decoded, sw_subs,
                   sub_r, hist, ethVars, auxVars, variant>>

\* lines 299-305: close the slot, release both locks, return r
r_unlock(t) ==
    /\ variant = "serial"
    /\ pc[t] = "r_unlock"
    /\ sync' = [sync EXCEPT !.complete = TRUE]
    /\ sync_lock' = 0
    /\ lock' = 0
    /\ ret' = Returned(t, "read", rv[t], sbuf, srecvd, <<>>)
    /\ rv' = [rv EXCEPT ![t] = "OK"]
    /\ pc' = [pc EXCEPT ![t] = "idle"]
    /\ calls' = <<>>
    /\ disp' = NoDisp
    /\ ev' = "none"
    /\ UNCHANGED <<call, sbuf, srecvd, slst, net_state, woken, lpc, rbuf,
                   stop, dpc, nsig, late, stale_write, cb_after_close,
                   state_lock, found, decoded, sw_subs, sub_r, hist,
                   ethVars, auxVars, variant>>

il_net__read(t) ==
    \/ \E a \in ReadArgs : r_state(t, a)
    \/ r_lock(t)
    \/ r_reg(t)
    \/ \E sent \in BOOLEAN : r_send(t, sent)
    \/ r_relock(t)
    \/ \E how \in WaitEnds : r_wait(t, how)
    \/ r_wake(t)
    \/ r_unlock(t)

(***************************************************************************)
(* il_net__write.                                                          *)
(***************************************************************************)

\* lines 228-232
w_state(t) ==
    /\ variant = "serial"
    /\ pc[t] = "idle" /\ dpc = "idle"
    /\ state_lock = 0
    /\ IF il_net_state_get # "OPERATIVE"
       THEN /\ ret' = Returned(t, "write", "IL_ESTATE", <<>>, 0, <<>>)
            /\ pc' = pc
       ELSE /\ pc' = [pc EXCEPT ![t] = "w_lock"]
            /\ ret' = NoRet
    /\ calls' = <<>>
    /\ disp' = NoDisp
    /\ ev' = "none"
    /\ UNCHANGED <<call, rv, sbuf, srecvd, slst, lock, sync_lock,
                   net_state, sync, woken, lpc, rbuf, stop, dpc, nsig,
                   late, stale_write, cb_after_close, state_lock, found,
                   decoded, sw_subs, sub_r, hist, ethVars, auxVars,
                   variant>>

\* seeded fault for C1: il_net__write goes on without waiting for the lock
w_lock_unguarded(t) ==
    /\ variant = "serial"
    /\ pc[t] = "w_lock"
    /\ lock' = t
    /\ pc' = [pc EXCEPT ![t] = "w_send"]
    /\ ret' = NoRet
    /\ calls' = <<>>
    /\ disp' = NoDisp
    /\ ev' = "none"
    /\ UNCHANGED <<call, rv, sbuf, srecvd, slst, sync_lock, net_state,
                   sync, woken, lpc, rbuf, stop, dpc, nsig, late,
                   stale_write, cb_after_close, state_lock, found,
                   decoded, sw_subs, sub_r, hist, ethVars, auxVars,
                   variant>>

\* line 234
w_lock(t) ==
    /\ variant = "serial"
    /\ pc[t] = "w_lock" /\ lock = 0
    /\ lock' = t
    /\ pc' = [pc EXCEPT ![t] = "w_send"]
    /\ ret' = NoRet
    /\ calls' = <<>>
    /\ disp' = NoDisp
    /\ ev' = "none"
    /\ UNCHANGED <<call, rv, sbuf, srecvd, slst, sync_lock, net_state,
                   sync, woken, lpc, rbuf, stop, dpc, nsig, late,
                   stale_write, cb_after_close, state_lock, found,
                   decoded, sw_subs, sub_r, hist, ethVars, auxVars,
                   variant>>

\* lines 236-244: ser_write, unlock, return r
w_send(t, sent) ==
    /\ variant = "serial"
    /\ pc[t] = "w_send"
    /\ lock' = 0
    /\ ret' = Returned(t, "write", IF sent THEN "OK" ELSE "SER_ERR", <<>>, 0, <<>>)
    /\ pc' = [pc EXCEPT ![t] = "idle"]
    /\ calls' = <<>>
    /\ disp' = NoDisp
    /\ ev' = "none"
    /\ UNCHANGED <<call, rv, sbuf, srecvd, slst, sync_lock, net_state,
                   sync, woken, lpc, rbuf, stop, dpc, nsig, late,
                   stale_write, cb_after_close, state_lock, found,
                   decoded, sw_subs, sub_r, hist, ethVars, auxVars,
                   variant>>

il_net__write(t) ==
    \/ w_state(t)
    \/ w_lock(t)
    \/ \E sent \in BOOLEAN : w_send(t, sent)

(***************************************************************************)
(* il_net_axes_list_get.                                                   *)
(***************************************************************************)

\* lines 688-692
s_state(t) ==
    /\ variant = "serial"
    /\ pc[t] = "idle" /\ dpc = "idle"
    /\ state_lock = 0
    /\ IF il_net_state_get # "OPERATIVE"
       THEN /\ ret' = Returned(t, "scan", "NULL", <<>>, 0, <<>>)
            /\ pc' = pc
       ELSE /\ pc' = [pc EXCEPT ![t] = "s_lock"]
            /\ ret' = NoRet
    /\ calls' = <<>>
    /\ disp' = NoDisp
    /\ ev' = "none"
    /\ UNCHANGED <<call, rv, sbuf, srecvd, slst, lock, sync_lock,
                   net_state, sync, woken, lpc, rbuf, stop, dpc, nsig,
                   late, stale_write, cb_after_close, state_lock, found,
                   decoded, sw_subs, sub_r, hist, ethVars, auxVars,
                   variant>>

\* line 694
s_lock(t) ==
    /\ variant = "serial"
    /\ pc[t] = "s_lock" /\ lock = 0
    /\ lock' = t
    /\ pc' = [pc EXCEPT ![t] = "s_reg"]
    /\ ret' = NoRet
    /\ calls' = <<>>
    /\ disp' = NoDisp
    /\ ev' = "none"
    /\ UNCHANGED <<call, rv, sbuf, srecvd, slst, sync_lock, net_state,
                   sync, woken, lpc, rbuf, stop, dpc, nsig, late,
                   stale_write, cb_after_close, state_lock, found,
                   decoded, sw_subs, sub_r, hist, ethVars, auxVars,
                   variant>>

\* lines 697-705: the slot points at the local variable id (one byte)
s_reg(t) ==
    /\ variant = "serial"
    /\ pc[t] = "s_reg" /\ sync_lock = 0
    /\ sync_lock' = t
    /\ sync' = [id |-> 0, idx |-> UARTCFG_ID_IDX, sidx |-> UARTCFG_ID_SIDX,
                sz |-> 1, buf |-> t, recvd |-> FALSE, complete |-> FALSE]
    /\ sbuf' = <<>> /\ srecvd' = 0 /\ slst' = <<>>
    /\ nsig' = 0 /\ late' = FALSE
    /\ found' = <<>> /\ decoded' = <<>>
    /\ pc' = [pc EXCEPT ![t] = "s_send"]
    /\ ret' = NoRet
    /\ calls' = <<>>
    /\ disp' = NoDisp
    /\ ev' = "none"
    /\ UNCHANGED <<call, rv, lock, net_state, woken, lpc, rbuf, stop,
                   dpc, stale_write, cb_after_close, state_lock, sw_subs,
                   sub_r, hist, ethVars, auxVars, variant>>

\* lines 707-716: broadcast "read node id".  When ser_write fails the code
\* jumps to the label unlock (line 746), which releases net->lock only.
s_send(t, sent) ==
    /\ variant = "serial"
    /\ pc[t] = "s_send"
    /\ IF sent
       THEN /\ sync_lock' = 0
            /\ pc' = [pc EXCEPT ![t] = "s_relock"]
            /\ ret' = NoRet
            /\ lock' = lock
       ELSE /\ lock' = 0
            /\ ret' = Returned(t, "scan", "NULL", <<>>, 0, <<>>)
            /\ pc' = [pc EXCEPT ![t] = "idle"]
            /\ sync_lock' = sync_lock
    /\ calls' = <<>>
    /\ disp' = NoDisp
    /\ ev' = "none"
    /\ UNCHANGED <<call, rv, sbuf, srecvd, slst, net_state, sync, woken,
                   lpc, rbuf, stop, dpc, nsig, late, stale_write,
                   cb_after_close, state_lock, found, decoded, sw_subs,
                   sub_r, hist, ethVars, auxVars, variant>>

\* line 719
s_relock(t) ==
    /\ variant = "serial"
    /\ pc[t] = "s_relock" /\ sync_lock = 0
    /\ sync_lock' = t
    /\ pc' = [pc EXCEPT ![t] = "s_loop"]
    /\ ret' = NoRet
    /\ calls' = <<>>
    /\ disp' = NoDisp
    /\ ev' = "none"
    /\ UNCHANGED <<call, rv, sbuf, srecvd, slst, lock, net_state, sync,
                   woken, lpc, rbuf, stop, dpc, nsig, late, stale_write,
                   cb_after_close, state_lock, found, decoded, sw_subs,
                   sub_r, hist, ethVars, auxVars, variant>>

\* lines 721-742, one iteration with r = 0: either take the completed
\* response (mem_ok is the outcome of malloc) or wait on the condition
s_loop(t, mem_ok) ==
    /\ variant = "serial"
    /\ pc[t] = "s_loop"
    /\ IF sync.complete
       THEN /\ sync' = [sync EXCEPT !.complete = FALSE]
            /\ nsig' = 0 /\ late' = FALSE
            /\ IF mem_ok
               THEN /\ slst' = <<sbuf[1]>> \o slst
                    /\ found' = Append(found, sbuf[1])
                    /\ pc' = pc
               ELSE /\ slst' = <<>>
                    /\ found' = found
                    /\ pc' = [pc EXCEPT ![t] = "s_exit"]
            /\ UNCHANGED <<sync_lock, woken>>
       ELSE /\ mem_ok
            /\ sync_lock' = 0
            /\ woken' = FALSE
            /\ pc' = [pc EXCEPT ![t] = "s_wait"]
            /\ UNCHANGED <<sync, nsig, late, slst, found>>
    /\ ret' = NoRet
    /\ calls' = <<>>
    /\ disp' = NoDisp
    /\ ev' = "none"
    /\ UNCHANGED <<call, rv, sbuf, srecvd, lock, net_state, lpc, rbuf,
                   stop, dpc, stale_write, cb_after_close, state_lock,
                   decoded, sw_subs, sub_r, hist, ethVars, auxVars,
                   variant>>

\* lines 739-740: osal_cond_wait with SCAN_TIMEOUT ends
s_wait(t, how) ==
    /\ variant = "serial"
    /\ pc[t] = "s_wait"
    /\ how = "signal" => woken
    /\ ev' = how
    /\ rv' = [rv EXCEPT ![t] = CASE how \in {"signal", "spurious"} -> "OK"
                                 [] how = "timeout" -> "OSAL_ETIMEDOUT"
                                 [] OTHER -> "OSAL_EFAIL"]
    /\ pc' = [pc EXCEPT ![t] = "s_wake"]
    /\ woken' = FALSE
    /\ ret' = NoRet
    /\ calls' = <<>>
    /\ disp' = NoDisp
    /\ UNCHANGED <<call, sbuf, srecvd, slst, lock, sync_lock, net_state,
                   sync, lpc, rbuf, stop, dpc, nsig, late, stale_write,
                   cb_after_close, state_lock, found, decoded, sw_subs,
                   sub_r, hist, ethVars, auxVars, variant>>

\* seeded fault for C21: a scan that goes on after a wait that timed out
s_wake_deaf(t) ==
    /\ variant = "serial"
    /\ pc[t] = "s_wake" /\ sync_lock = 0
    /\ sync_lock' = t
    /\ pc' = [pc EXCEPT ![t] = "s_loop"]
    /\ ret' = NoRet
    /\ calls' = <<>>
    /\ disp' = NoDisp
    /\ ev' = "none"
    /\ UNCHANGED <<call, rv, sbuf, srecvd, slst, lock, net_state, sync,
                   woken, lpc, rbuf, stop, dpc, nsig, late, stale_write,
                   cb_after_close, state_lock, found, decoded, sw_subs,
                   sub_r, hist, ethVars, auxVars, variant>>

\* osal_cond_wait retakes sync.lock; the loop goes on while r = 0
s_wake(t) ==
    /\ variant = "serial"
    /\ pc[t] = "s_wake" /\ sync_lock = 0
    /\ sync_lock' = t
    /\ pc' = [pc EXCEPT ![t] = IF rv[t] = "OK" THEN "s_loop" ELSE "s_exit"]
    /\ ret' = NoRet
    /\ calls' = <<>>
    /\ disp' = NoDisp
    /\ ev' = "none"
    /\ UNCHANGED <<call, rv, sbuf, srecvd, slst, lock, net_state, sync,
                   woken, lpc, rbuf, stop, dpc, nsig, late, stale_write,
                   cb_after_close, state_lock, found, decoded, sw_subs,
                   sub_r, hist, ethVars, auxVars, variant>>

\* lines 744-749: release both locks, return the list
s_exit(t) ==
    /\ variant = "serial"
    /\ pc[t] = "s_exit"
    /\ sync_lock' = 0
    /\ lock' = 0
    /\ ret' = Returned(t, "scan", IF slst = <<>> THEN "NULL" ELSE "LIST", <<>>, 0,
                        slst)
    /\ slst' = <<>>
    /\ found' = <<>> /\ decoded' = <<>>
    /\ rv' = [rv EXCEPT ![t] = "OK"]
    /\ pc' = [pc EXCEPT ![t] = "idle"]
    /\ calls' = <<>>
    /\ disp' = NoDisp
    /\ ev' = "none"
    /\ UNCHANGED <<call, sbuf, srecvd, net_state, sync, woken, lpc, rbuf,
                   stop, dpc, nsig, late, stale_write, cb_after_close,
                   state_lock, sw_subs, sub_r, hist, ethVars, auxVars,
                   variant>>

il_net_axes_list_get(t) ==
    \/ s_state(t)
    \/ s_lock(t)
    \/ s_reg(t)
    \/ \E sent \in BOOLEAN : s_send(t, sent)
    \/ s_relock(t)
    \/ \E mem_ok \in BOOLEAN : s_loop(t, mem_ok)
    \/ \E how \in WaitEnds : s_wait(t, how)
    \/ s_wake(t)
    \/ s_exit(t)

(***************************************************************************)
(* The listener thread.                                                    *)
(***************************************************************************)
\* seeded fault for C2: the match without the test of sync->complete
sync_match_reopened(slot, frame) ==
    /\ (slot.id = frame.id \/ slot.id = 0)
    /\ slot.idx = frame.idx
    /\ slot.sidx = frame.sidx
    /\ slot.sz >= frame.sz

\* seeded fault for C18: the match without the comparison of the sizes
sync_match_nosz(slot, frame) ==
    /\ ~slot.complete
    /\ (slot.id = frame.id \/ slot.id = 0)
    /\ slot.idx = frame.idx
    /\ slot.sidx = frame.sidx

\* process_sync, lines 89-97: does the frame complete the slot?
sync_match(slot, frame) ==
    /\ ~slot.complete
    /\ (slot.id = frame.id \/ slot.id = 0)
    /\ slot.idx = frame.idx
    /\ slot.sidx = frame.sidx
    /\ slot.sz >= frame.sz

Waiting == {t \in Callers : pc[t] \in {"r_wait", "s_wait"}}

\* the call that armed the slot has not returned yet
SlotLive ==
    /\ sync.buf # 0
    /\ pc[sync.buf] \in {"r_send", "r_relock", "r_wait", "r_wake", "r_unlock",
                         "s_send", "s_relock", "s_loop", "s_wait", "s_wake",
                         "s_exit"}

\* a scan has sent its broadcast and none of its waits has timed out or
\* failed yet
ScanOpen ==
    /\ sync.buf # 0
    /\ \/ pc[sync.buf] \in {"s_relock", "s_loop", "s_wait"}
       \/ pc[sync.buf] = "s_wake" /\ rv[sync.buf] = "OK"

\* process_sync on one frame; it runs under sync.lock, so it needs the
\* lock to be free.  decoded notes the node ids the listener decodes
\* while a scan is open.
process_sync(frame) ==
    /\ sync_lock = 0
    /\ decoded' = IF ScanOpen /\ frame.idx = UARTCFG_ID_IDX
                  THEN Append(decoded, frame.data[1])
                  ELSE decoded
    /\ IF sync_match(sync, frame)
       THEN /\ sbuf' = SubSeq(frame.data, 1, frame.sz)
            /\ srecvd' = IF sync.recvd THEN frame.sz ELSE srecvd
            /\ sync' = [sync EXCEPT !.complete = TRUE]
            /\ woken' = (woken \/ Waiting # {})
            /\ nsig' = nsig + 1
            /\ late' = late
            /\ stale_write' = (stale_write \/ ~SlotLive)
       ELSE /\ late' = (late \/ sync.complete)
            /\ UNCHANGED <<sbuf, srecvd, sync, woken, nsig, stale_write>>

\* line 171: while (!net->stop)
l_loop ==
    /\ variant = "serial"
    /\ lpc = "loop"
    /\ lpc' = IF stop = 1 THEN "done" ELSE "rbuf"
    /\ ret' = NoRet
    /\ calls' = <<>>
    /\ disp' = NoDisp
    /\ ev' = "none"
    /\ UNCHANGED <<pc, call, rv, sbuf, srecvd, slst, lock, sync_lock,
                   net_state, sync, woken, rbuf, stop, dpc, nsig, late,
                   stale_write, cb_after_close, state_lock, found,
                   decoded, sw_subs, sub_r, hist, ethVars, auxVars,
                   variant>>

\* process_rbuf, lines 129-153: next complete frame of the buffer, if any;
\* a frame that is no response is dropped
l_rbuf ==
    /\ variant = "serial"
    /\ lpc = "rbuf"
    /\ IF rbuf = <<>>
       THEN lpc' = "read" /\ rbuf' = rbuf
       ELSE IF Head(rbuf).resp
            THEN lpc' = "psw" /\ rbuf' = rbuf
            ELSE lpc' = lpc /\ rbuf' = Tail(rbuf)
    /\ ret' = NoRet
    /\ calls' = <<>>
    /\ disp' = NoDisp
    /\ ev' = "none"
    /\ UNCHANGED <<pc, call, rv, sbuf, srecvd, slst, lock, sync_lock,
                   net_state, sync, woken, stop, dpc, nsig, late,
                   stale_write, cb_after_close, state_lock, found,
                   decoded, sw_subs, sub_r, hist, ethVars, auxVars,
                   variant>>

\* line 147: process_statusword(net, frame)
l_psw ==
    /\ variant = "serial"
    /\ lpc = "psw"
    /\ calls' = process_statusword(sw_subs, Head(rbuf))
    /\ disp' = Head(rbuf)
    /\ cb_after_close' = (cb_after_close \/ (dpc = "closed" /\ calls' # <<>>))
    /\ lpc' = "psync"
    /\ ret' = NoRet
    /\ ev' = "none"
    /\ UNCHANGED <<pc, call, rv, sbuf, srecvd, slst, lock, sync_lock,
                   net_state, sync, woken, rbuf, stop, dpc, nsig, late,
                   stale_write, state_lock, found, decoded, sw_subs,
                   sub_r, hist, ethVars, auxVars, variant>>

\* lines 148-151: process_sync(net, frame), then il_frame__reset
l_psync ==
    /\ variant = "serial"
    /\ lpc = "psync"
    /\ process_sync(Head(rbuf))
    /\ rbuf' = Tail(rbuf)
    /\ lpc' = "rbuf"
    /\ ret' = NoRet
    /\ calls' = <<>>
    /\ disp' = NoDisp
    /\ ev' = "none"
    /\ UNCHANGED <<pc, call, rv, slst, lock, sync_lock, net_state, stop,
                   dpc, cb_after_close, state_lock, found, sw_subs,
                   sub_r, hist, ethVars, auxVars, variant>>

\* seeded fault for C20: a listener that goes on after a hard error
l_read_forgiving(how, batch) ==
    /\ variant = "serial"
    /\ lpc = "read"
    /\ ev' = how
    /\ IF how = "DATA"
       THEN /\ Len(decoded) + NumId(batch) <= MaxFound
            /\ rbuf' = batch
            /\ lpc' = "loop"
       ELSE /\ lpc' = "loop"
            /\ rbuf' = rbuf
    /\ ret' = NoRet
    /\ calls' = <<>>
    /\ disp' = NoDisp
    /\ UNCHANGED <<pc, call, rv, sbuf, srecvd, slst, lock, sync_lock,
                   net_state, sync, woken, stop, dpc, nsig, late,
                   stale_write, cb_after_close, state_lock, found,
                   decoded, sw_subs, sub_r, hist, ethVars, auxVars,
                   variant>>

\* lines 181-192: ser_read, and ser_read_wait when it reports SER_EEMPTY.
\* how is what they give: DATA (bytes were added), EEMPTY_TIMEDOUT and
\* EEMPTY_READY (the wait timed out, or data became available), EEMPTY_ERR
\* (the wait failed), ERR (the read failed), ZERO (the read gave no bytes)
l_read(how, batch) ==
    /\ variant = "serial"
    /\ lpc = "read"
    /\ ev' = how
    /\ IF how = "DATA"
       THEN /\ Len(decoded) + NumId(batch) <= MaxFound
            /\ rbuf' = batch
            /\ lpc' = "loop"
       ELSE IF how \in {"EEMPTY_TIMEDOUT", "EEMPTY_READY"}
       THEN /\ lpc' = "loop"
            /\ rbuf' = rbuf
       ELSE /\ lpc' = "err"
            /\ rbuf' = rbuf
    /\ ret' = NoRet
    /\ calls' = <<>>
    /\ disp' = NoDisp
    /\ UNCHANGED <<pc, call, rv, sbuf, srecvd, slst, lock, sync_lock,
                   net_state, sync, woken, stop, dpc, nsig, late,
                   stale_write, cb_after_close, state_lock, found,
                   decoded, sw_subs, sub_r, hist, ethVars, auxVars,
                   variant>>

\* line 198: err: osal_mutex_lock(net->state_lock)
l_err_lock ==
    /\ variant = "serial"
    /\ lpc = "err" /\ state_lock = 0
    /\ state_lock' = ListenerThread
    /\ lpc' = "faulty"
    /\ ret' = NoRet
    /\ calls' = <<>>
    /\ disp' = NoDisp
    /\ ev' = "none"
    /\ UNCHANGED <<pc, call, rv, sbuf, srecvd, slst, lock, sync_lock,
                   net_state, sync, woken, rbuf, stop, dpc, nsig, late,
                   stale_write, cb_after_close, found, decoded, sw_subs,
                   sub_r, hist, ethVars, auxVars, variant>>

\* lines 199-202: net->state = IL_NET_STATE_FAULTY, unlock, return IL_EFAIL
l_err_set ==
    /\ variant = "serial"
    /\ lpc = "faulty"
    /\ net_state' = "FAULTY"
    /\ state_lock' = 0
    /\ lpc' = "done"
    /\ ret' = NoRet
    /\ calls' = <<>>
    /\ disp' = NoDisp
    /\ ev' = "none"
    /\ UNCHANGED <<pc, call, rv, sbuf, srecvd, slst, lock, sync_lock,
                   sync, woken, rbuf, stop, dpc, nsig, late, stale_write,
                   cb_after_close, found, decoded, sw_subs, sub_r, hist,
                   ethVars, auxVars, variant>>

listener ==
    \/ l_loop
    \/ l_rbuf
    \/ l_psw
    \/ l_psync
    \/ \E b \in RxBatches : l_read("DATA", b)
    \/ \E how \in {"EEMPTY_TIMEDOUT", "EEMPTY_READY", "EEMPTY_ERR", "ERR", "ZERO"} :
          l_read(how, <<>>)
    \/ l_err_lock
    \/ l_err_set

(***************************************************************************)
(* il_net_destroy.  It is called once no caller is inside the session.     *)
(***************************************************************************)

\* line 518: net->stop = 1
d_stop ==
    /\ variant = "serial"
    /\ dpc = "idle"
    /\ \A t \in Callers : pc[t] = "idle"
    /\ stop' = 1
    /\ dpc' = "join"
    /\ ret' = NoRet
    /\ calls' = <<>>
    /\ disp' = NoDisp
    /\ ev' = "none"
    /\ UNCHANGED <<pc, call, rv, sbuf, srecvd, slst, lock, sync_lock,
                   net_state, sync, woken, lpc, rbuf, nsig, late,
                   stale_write, cb_after_close, state_lock, found,
                   decoded, sw_subs, sub_r, hist, ethVars, auxVars,
                   variant>>

\* lines 519-534: osal_thread_join returns once the listener has returned;
\* the port, the locks and the subscriber array are released after it
d_join ==
    /\ variant = "serial"
    /\ dpc = "join"
    /\ lpc = "done"
    /\ dpc' = "closed"
    /\ ret' = NoRet
    /\ calls' = <<>>
    /\ disp' = NoDisp
    /\ ev' = "none"
    /\ UNCHANGED <<pc, call, rv, sbuf, srecvd, slst, lock, sync_lock,
                   net_state, sync, woken, lpc, rbuf, stop, nsig, late,
                   stale_write, cb_after_close, state_lock, found,
                   decoded, sw_subs, sub_r, hist, ethVars, auxVars,
                   variant>>

il_net_destroy == d_stop \/ d_join
(***************************************************************************)
(* TCP session (src/ingenialink/eth/net.c).                                *)
(* A frame is the array uint16_t frame[7], here a tuple of 7 words; the    *)
(* host is little-endian, so word w lies in memory as the bytes            *)
(* w % 256, w \div 256.                                                    *)
(***************************************************************************)
\* frame layout and command codes (eth/net.h; the values are those of the
\* wire format: READ = 1, WRITE = 2, ACK = 3, cmd in bits 1..3 of HDR_L)
ETH_MCB_HDR_L_POS == 1
ETH_MCB_DATA_POS == 2
ETH_MCB_CRC_POS == 6
ETH_MCB_NODE_DFLT == 10
ETH_MCB_CMD_READ == 1
ETH_MCB_CMD_WRITE == 2
ETH_MCB_CMD_ACK == 3
ETH_MCB_CMD_MSK == 14
ETH_MCB_CMD_POS == 1

\* listener_eth: the poll reads address 0x0011 of subnode 1, and gives up
\* after this many errors
STATUSWORD_ADDRESS == 17
POLL_SUBNODE == 1
RECONNECT_ERRORS == 10

BitOr(a, b) == a + b - BitAnd(a, b)

RECURSIVE Pow2(_)
Pow2(n) == IF n = 0 THEN 1 ELSE 2 * Pow2(n - 1)

\* the bytes of an array of 16-bit words, as the host stores them
RECURSIVE BytesOf(_)
BytesOf(words) ==
    IF words = <<>> THEN <<>>
    ELSE <<Head(words) % 256, Head(words) \div 256>> \o BytesOf(Tail(words))

\* init_crcccitt_tab_eth: the inner loop over j, from step j on
RECURSIVE crc_tab_loop(_, _, _)
crc_tab_loop(crc, c, j) ==
    IF j = 8 THEN crc
    ELSE crc_tab_loop(IF BitAnd(BitXor(crc, c), 32768) # 0
                      THEN BitXor(U16(crc * 2), 4129)
                      ELSE U16(crc * 2),
                      U16(c * 2), j + 1)

\* the table init_crcccitt_tab_eth fills
crc_tabccitt_eth == [i \in 0..255 |-> crc_tab_loop(0, U16(i * 256), 0)]

update_crc_ccitt_eth(crc, c) ==
    BitXor(U16(crc * 256),
           crc_tabccitt_eth[BitAnd(BitXor(crc \div 256, c), 255)])

RECURSIVE crc_loop(_, _, _, _)
crc_loop(bytes, u16Idx, n, crc) ==
    IF u16Idx >= n THEN crc
    ELSE crc_loop(bytes, u16Idx + 1, n,
                  update_crc_ccitt_eth(crc, bytes[u16Idx + 1]))

\* crc_calc_eth over the first u16Sz words of buf
crc_calc_eth(buf, u16Sz) == crc_loop(BytesOf(buf), 0, u16Sz * 2, 0)

\* sizeof(uint64_t d) in net_send, the size of the data field of a frame
SIZEOF_D == 8

\* memcpy(&d, data, sz) into uint64_t d = 0, then the four words of d
PayloadWords(data, sz) ==
    LET byte(k) == IF k <= sz /\ k <= Len(data) THEN data[k] ELSE 0
    IN  [w \in 1..4 |-> byte(2 * w - 1) + 256 * byte(2 * w)]

\* net_send: the frame it hands to send()
net_send(subnode, address, data, sz) ==
    LET cmd   == IF sz # 0 THEN ETH_MCB_CMD_WRITE ELSE ETH_MCB_CMD_READ
        hdr_h == U16(BitOr(ETH_MCB_NODE_DFLT * 16, subnode))
        hdr_l == U16(BitOr(BitOr(address * 16, cmd * 2), 0))
        body  == <<hdr_h, hdr_l>> \o PayloadWords(data, sz)
    IN  Append(body, crc_calc_eth(body, ETH_MCB_CRC_POS))

\* net_send with sz > sizeof(d): memcpy(&d, data, sz) runs past d.  This
\* is the frame when the bytes past d are the first bytes of frame[], where
\* the header has just been stored.
net_send_smashed(subnode, address, data, sz) ==
    LET cmd   == IF sz # 0 THEN ETH_MCB_CMD_WRITE ELSE ETH_MCB_CMD_READ
        hdr_h == U16(BitOr(ETH_MCB_NODE_DFLT * 16, subnode))
        hdr_l == U16(BitOr(BitOr(address * 16, cmd * 2), 0))
        hdr   == BytesOf(<<hdr_h, hdr_l>>)
        over  == sz - SIZEOF_D
        hit   == [k \in 1..4 |-> IF k <= over THEN data[SIZEOF_D + k] ELSE hdr[k]]
        body  == <<hit[1] + 256 * hit[2], hit[3] + 256 * hit[4]>>
                 \o PayloadWords(data, SIZEOF_D)
    IN  Append(body, crc_calc_eth(body, ETH_MCB_CRC_POS))

\* a 32-bit value is written as its four bytes, most significant first
\* *(uint32_t *)p on the little-endian host
LoadU32(bytes) == <<bytes[4], bytes[3], bytes[2], bytes[1]>>
\* __swap_be_32 on the little-endian host: reverse the bytes
swap_be_32(v) == <<v[4], v[3], v[2], v[1]>>

NoErr == [kind |-> "none", code |-> <<>>]

\* seeded fault for C9: net_recv without the CRC comparison
net_recv_unchecked(frame, buf, sz) ==
    LET hdr_l   == frame[ETH_MCB_HDR_L_POS + 1]
        cmd     == BitAnd(hdr_l, ETH_MCB_CMD_MSK) \div Pow2(ETH_MCB_CMD_POS)
        data    == BytesOf(SubSeq(frame, ETH_MCB_DATA_POS + 1, ETH_MCB_CRC_POS))
    IN  IF cmd # ETH_MCB_CMD_ACK
        THEN [r |-> "IL_EIO", buf |-> buf,
              err |-> [kind |-> "NACK", code |-> swap_be_32(LoadU32(data))]]
        ELSE [r |-> "OK",
              buf |-> IF sz = 0 THEN buf
                      ELSE SubSeq(data, 1, sz) \o SubSeq(buf, sz + 1, Len(buf)),
              err |-> NoErr]

\* seeded fault for C10: net_recv reporting the error code in host order
net_recv_host_order(frame, buf, sz) ==
    LET crc     == frame[ETH_MCB_CRC_POS + 1]
        crc_res == crc_calc_eth(frame, 6)
        hdr_l   == frame[ETH_MCB_HDR_L_POS + 1]
        cmd     == BitAnd(hdr_l, ETH_MCB_CMD_MSK) \div Pow2(ETH_MCB_CMD_POS)
        data    == BytesOf(SubSeq(frame, ETH_MCB_DATA_POS + 1, ETH_MCB_CRC_POS))
    IN  IF crc_res # crc
        THEN [r |-> "IL_EIO", buf |-> buf, err |-> [kind |-> "CRC", code |-> <<>>]]
        ELSE IF cmd # ETH_MCB_CMD_ACK
        THEN [r |-> "IL_EIO", buf |-> buf,
              err |-> [kind |-> "NACK", code |-> LoadU32(data)]]
        ELSE [r |-> "OK",
              buf |-> IF sz = 0 THEN buf
                      ELSE SubSeq(data, 1, sz) \o SubSeq(buf, sz + 1, Len(buf)),
              err |-> NoErr]

\* net_recv on the frame buffer as recv() left it; buf is the caller's
\* buffer before the call.  Gives r, the buffer afterwards and the error
\* handed to ilerr__set.
net_recv(frame, buf, sz) ==
    LET crc     == frame[ETH_MCB_CRC_POS + 1]
        crc_res == crc_calc_eth(frame, 6)
        hdr_l   == frame[ETH_MCB_HDR_L_POS + 1]
        cmd     == BitAnd(hdr_l, ETH_MCB_CMD_MSK) \div Pow2(ETH_MCB_CMD_POS)
        data    == BytesOf(SubSeq(frame, ETH_MCB_DATA_POS + 1, ETH_MCB_CRC_POS))
    IN  IF crc_res # crc
        THEN [r |-> "IL_EIO", buf |-> buf, err |-> [kind |-> "CRC", code |-> <<>>]]
        ELSE IF cmd # ETH_MCB_CMD_ACK
        THEN [r |-> "IL_EIO", buf |-> buf,
              err |-> [kind |-> "NACK", code |-> swap_be_32(LoadU32(data))]]
        ELSE [r |-> "OK",
              buf |-> IF sz = 0 THEN buf
                      ELSE SubSeq(data, 1, sz) \o SubSeq(buf, sz + 1, Len(buf)),
              err |-> NoErr]

\* TCP process_statusword(this, subnode, data): data is a pointer and
\* "sw = data" stores that pointer, converted to uint16_t; the loop runs to
\* the recorded capacity and stops at the first entry it calls
eth_process_statusword(reg, subnode, data) ==
    LET id   == subnode
        sw   == U16(data)
        last == IF reg.sz < MaxSubs THEN reg.sz ELSE MaxSubs
        hits == {i \in 1..last : reg.subs[i].id = id /\ reg.subs[i].cb # 0}
    IN  IF hits = {} THEN <<>>
        ELSE LET i == CHOOSE k \in hits : \A j \in hits : k <= j
             IN  <<[cb |-> reg.subs[i].cb, sw |-> sw]>>

(***************************************************************************)
(* Inputs of the TCP session.                                              *)
(***************************************************************************)
\* values the device answers the poll with
PollValues == {4660, 567}
\* what the listener's local buf holds before anything was received
UninitValues == {0, 4660}
\* what &buf, converted to uint16_t, can be
AddrLow16 == {65214, 4660}
\* cmd codes of a device that refuses
NackCmds == {1, 5}

\* a well-formed response frame
MkFrame(subnode, address, cmd, words) ==
    LET body == <<BitOr(ETH_MCB_NODE_DFLT * 16, subnode),
                  BitOr(address * 16, cmd * 2)>> \o words
    IN  Append(body, crc_calc_eth(body, ETH_MCB_CRC_POS))

\* the same frame with a damaged CRC word
Damaged(f) == [f EXCEPT ![ETH_MCB_CRC_POS + 1] = BitXor(f[ETH_MCB_CRC_POS + 1], 255)]

AckFrames ==
    { MkFrame(POLL_SUBNODE, STATUSWORD_ADDRESS, ETH_MCB_CMD_ACK, <<v, 0, 0, 0>>) :
        v \in PollValues }
NackFrames ==
    { MkFrame(POLL_SUBNODE, STATUSWORD_ADDRESS, c, <<44510, 61374, 0, 0>>) :
        c \in NackCmds }
\* acknowledgements of another address and of another subnode
StrayFrames ==
    { MkFrame(POLL_SUBNODE, 3, ETH_MCB_CMD_ACK, <<291, 0, 0, 0>>),
      MkFrame(2, STATUSWORD_ADDRESS, ETH_MCB_CMD_ACK, <<291, 0, 0, 0>>) }

\* what the frame buffer of net_recv can hold after recv()
EthFrames ==
    AckFrames \cup NackFrames \cup StrayFrames
    \cup { Damaged(f) : f \in AckFrames }

\* a read of the statusword, and a read of an address that needs more than
\* the 12 bits the header has for it (0x1011)
EthReadArgs ==
    { [op |-> "read", subnode |-> POLL_SUBNODE, address |-> STATUSWORD_ADDRESS,
       sz |-> 2, data |-> <<0, 0>>],
      [op |-> "read", subnode |-> POLL_SUBNODE, address |-> 4113,
       sz |-> 2, data |-> <<0, 0>>] }
\* a write of two bytes, and one of ten bytes, more than the 8-byte data
\* field of a frame holds
EthWriteArgs ==
    { [op |-> "write", subnode |-> POLL_SUBNODE, address |-> 32,
       sz |-> 2, data |-> <<52, 18>>],
      [op |-> "write", subnode |-> POLL_SUBNODE, address |-> 32,
       sz |-> 10, data |-> <<1, 2, 3, 4, 5, 6, 7, 8, 9, 10>>] }
NoEArgs == [op |-> "none", subnode |-> 0, address |-> 0, sz |-> 0, data |-> <<>>]

\* what the listener's buf can hold: its initial garbage or a received word
LBufValues == UninitValues \cup {f[ETH_MCB_DATA_POS + 1] : f \in EthFrames}

\* net_recv and net_send are evaluated once for each input of the model
RecvBufs ==
    {<<>>} \cup {a.data : a \in EthReadArgs} \cup {BytesOf(<<v>>) : v \in LBufValues}
RecvResult == [f \in EthFrames, b \in RecvBufs |-> net_recv(f, b, Len(b))]

SendArgs ==
    { <<POLL_SUBNODE, STATUSWORD_ADDRESS, <<>>, 0>> }
    \cup { <<a.subnode, a.address, <<>>, 0>> : a \in EthReadArgs }
    \cup { <<a.subnode, a.address, a.data, a.sz>> : a \in EthWriteArgs }
SentFrame == [a \in SendArgs |-> net_send(a[1], a[2], a[3], a[4])]
SmashedFrame ==
    [a \in {s \in SendArgs : s[4] > SIZEOF_D} |->
        net_send_smashed(a[1], a[2], a[3], a[4])]
\* what the overflow of d can do: nothing that shows, overwrite the header
\* in frame[], or end the process
SmashOutcomes == {"intact", "frame", "abort"}

\* crc_calc_eth over the first 6 words of each frame of the model
FrameCrc == [f \in EthFrames |-> crc_calc_eth(f, 6)]

NoEret == [t |-> 0, op |-> "none", r |-> "OK", buf |-> <<>>, buf0 |-> <<>>,
           err |-> NoErr, rx |-> <<>>, after_bad |-> FALSE]


\* registries of the TCP session: ids 1 and 2; id 1 twice; id 1 subscribed
\* and unsubscribed again
EthRegistries ==
    { sw_subscribe(sw_subscribe(RegistryInit, 1, 1, TRUE).reg, 2, 2, TRUE).reg,
      sw_subscribe(sw_subscribe(RegistryInit, 1, 1, TRUE).reg, 1, 2, TRUE).reg,
      sw_unsubscribe(sw_subscribe(RegistryInit, 1, 1, TRUE).reg, 1) }

\* il_eth_net_connect, lines 272-275, with buf and &buf of listener_eth
EthInitWith(b, a) ==
    /\ epc = [t \in Callers |-> "idle"]
    /\ eargs = [t \in Callers |-> NoEArgs]
    /\ elock = 0
    /\ elpc = "top"
    /\ error_count = 0
    /\ lbuf = b
    /\ buf_addr = a
    /\ estop = 0
    /\ stop_reconnect = 0
    /\ rc_r = 0
    /\ tx = <<>>
    /\ eret = NoEret
    /\ poll = "none"
    /\ fails_row = 0
    /\ cancel = -1
    /\ crc_failed = FALSE

EthInit == \E b \in UninitValues, a \in AddrLow16 : EthInitWith(b, a)

(***************************************************************************)
(* il_eth_net__read and il_eth_net__write: the same three steps.           *)
(***************************************************************************)

\* lines 428 and 453: osal_mutex_lock(this->net.lock) at the start of a call
e_lock(t, a) ==
    /\ variant = "tcp"
    /\ epc[t] = "idle" /\ elock = 0
    /\ elock' = t
    /\ eargs' = [eargs EXCEPT ![t] = a]
    /\ epc' = [epc EXCEPT ![t] = "send"]
    /\ eret' = NoEret
    /\ tx' = <<>>
    /\ calls' = <<>>
    /\ disp' = NoDisp
    /\ UNCHANGED <<elpc, error_count, lbuf, buf_addr, estop,
                   stop_reconnect, rc_r, poll, fails_row, cancel,
                   crc_failed, sw_subs, sub_r, hist, serVars, auxVars,
                   variant>>

\* lines 430-432 and 455-457: net_send; a read sends no data, a write sends
\* its buffer; when send() fails the call unlocks and returns the error.
\* net_send has no test of sz: with sz > 8 its memcpy overflows d, and ub is
\* what comes of that.
e_send(t, sent, ub) ==
    /\ variant = "tcp"
    /\ epc[t] = "send"
    /\ eargs[t].sz <= SIZEOF_D => ub = "intact"
    /\ IF ub = "abort"
       THEN /\ variant' = "crashed"
            /\ tx' = <<>>
            /\ eret' = NoEret
            /\ UNCHANGED <<epc, elock, eargs, crc_failed>>
       ELSE /\ variant' = variant
            /\ tx' = LET a == IF eargs[t].op = "read"
                              THEN <<eargs[t].subnode, eargs[t].address, <<>>, 0>>
                              ELSE <<eargs[t].subnode, eargs[t].address,
                                     eargs[t].data, eargs[t].sz>>
                     IN  IF ub = "frame" THEN SmashedFrame[a] ELSE SentFrame[a]
            /\ IF sent
               THEN /\ epc' = [epc EXCEPT ![t] = "recv"]
                    /\ eret' = NoEret
                    /\ UNCHANGED <<elock, eargs, crc_failed>>
               ELSE /\ elock' = 0
                    /\ eret' = [t |-> t, op |-> eargs[t].op, r |-> "SER_ERR",
                                buf |-> eargs[t].data, buf0 |-> eargs[t].data,
                                err |-> [kind |-> "SER", code |-> <<>>],
                                rx |-> <<>>, after_bad |-> crc_failed]
                    /\ crc_failed' = FALSE
                    /\ eargs' = [eargs EXCEPT ![t] = NoEArgs]
                    /\ epc' = [epc EXCEPT ![t] = "idle"]
    /\ calls' = <<>>
    /\ disp' = NoDisp
    /\ UNCHANGED <<elpc, error_count, lbuf, buf_addr, estop,
                   stop_reconnect, rc_r, poll, fails_row, cancel,
                   sw_subs, sub_r, hist, serVars, auxVars>>

\* lines 434-441 and 459-464: net_recv (a write passes no buffer), unlock,
\* return r; f is the frame buffer after recv()
e_recv(t, f) ==
    /\ variant = "tcp"
    /\ epc[t] = "recv"
    /\ LET res == IF eargs[t].op = "read"
                  THEN RecvResult[f, eargs[t].data]
                  ELSE RecvResult[f, <<>>]
       IN  /\ eret' = [t |-> t, op |-> eargs[t].op, r |-> res.r,
                       buf |-> res.buf,
                       buf0 |-> IF eargs[t].op = "read" THEN eargs[t].data
                                ELSE <<>>,
                       err |-> res.err, rx |-> f, after_bad |-> crc_failed]
           /\ crc_failed' = (res.err.kind = "CRC")
    /\ elock' = 0
    /\ eargs' = [eargs EXCEPT ![t] = NoEArgs]
    /\ epc' = [epc EXCEPT ![t] = "idle"]
    /\ tx' = <<>>
    /\ calls' = <<>>
    /\ disp' = NoDisp
    /\ UNCHANGED <<elpc, error_count, lbuf, buf_addr, estop,
                   stop_reconnect, rc_r, poll, fails_row, cancel,
                   sw_subs, sub_r, hist, serVars, auxVars, variant>>

il_eth_net__read(t) ==
    \/ \E a \in EthReadArgs : e_lock(t, a)
    \/ eargs[t].op = "read" /\ \E sent \in BOOLEAN : e_send(t, sent, "intact")
    \/ eargs[t].op = "read" /\ \E f \in EthFrames : e_recv(t, f)

il_eth_net__write(t) ==
    \/ \E a \in EthWriteArgs : e_lock(t, a)
    \/ eargs[t].op = "write"
          /\ \E sent \in BOOLEAN, ub \in SmashOutcomes : e_send(t, sent, ub)
    \/ eargs[t].op = "write" /\ \E f \in EthFrames : e_recv(t, f)

(***************************************************************************)
(* listener_eth.                                                           *)
(***************************************************************************)

\* lines 153 and 173-176: while (error_count < 10); after the loop,
\* error_count == 10 leads to err, anything else returns
el_top ==
    /\ variant = "tcp"
    /\ elpc = "top"
    /\ elpc' = IF error_count < RECONNECT_ERRORS THEN "lock"
               ELSE IF error_count = RECONNECT_ERRORS THEN "err"
               ELSE "done"
    /\ poll' = "none"
    /\ eret' = NoEret
    /\ tx' = <<>>
    /\ calls' = <<>>
    /\ disp' = NoDisp
    /\ UNCHANGED <<epc, eargs, elock, error_count, lbuf, buf_addr, estop,
                   stop_reconnect, rc_r, fails_row, cancel, crc_failed,
                   sw_subs, sub_r, hist, serVars, auxVars, variant>>

\* line 154
el_lock ==
    /\ variant = "tcp"
    /\ elpc = "lock" /\ elock = 0
    /\ elock' = ListenerThread
    /\ elpc' = "send"
    /\ eret' = NoEret
    /\ tx' = <<>>
    /\ calls' = <<>>
    /\ disp' = NoDisp
    /\ UNCHANGED <<epc, eargs, error_count, lbuf, buf_addr, estop,
                   stop_reconnect, rc_r, poll, fails_row, cancel,
                   crc_failed, sw_subs, sub_r, hist, serVars, auxVars,
                   variant>>

\* lines 155-159: net_send(this, 1, 0x0011, NULL, 0)
el_send(sent) ==
    /\ variant = "tcp"
    /\ elpc = "send"
    /\ tx' = SentFrame[<<POLL_SUBNODE, STATUSWORD_ADDRESS, <<>>, 0>>]
    /\ IF sent
       THEN /\ elpc' = "recv"
            /\ UNCHANGED <<error_count, poll, fails_row>>
       ELSE /\ error_count' = error_count + 1
            /\ poll' = "fail"
            /\ fails_row' = fails_row + 1
            /\ elpc' = "unlock"
    /\ eret' = NoEret
    /\ calls' = <<>>
    /\ disp' = NoDisp
    /\ UNCHANGED <<epc, eargs, elock, lbuf, buf_addr, estop,
                   stop_reconnect, rc_r, cancel, crc_failed, sw_subs,
                   sub_r, hist, serVars, auxVars, variant>>

\* seeded fault for C7: a successful poll leaves error_count as it was
el_recv_sticky(f) ==
    /\ variant = "tcp"
    /\ elpc = "recv"
    /\ LET res == RecvResult[f, BytesOf(<<lbuf>>)]
       IN  IF res.r # "OK"
           THEN /\ error_count' = error_count + 1
                /\ poll' = "fail"
                /\ fails_row' = fails_row + 1
                /\ lbuf' = LoadU16(res.buf)
           ELSE /\ error_count' = error_count
                /\ poll' = "ok"
                /\ fails_row' = 0
                /\ lbuf' = LoadU16(res.buf)
    /\ elpc' = "unlock"
    /\ eret' = NoEret
    /\ tx' = <<>>
    /\ calls' = <<>>
    /\ disp' = NoDisp
    /\ UNCHANGED <<epc, eargs, elock, buf_addr, estop, stop_reconnect,
                   rc_r, cancel, crc_failed, sw_subs, sub_r, hist,
                   serVars, auxVars, variant>>

\* lines 160-166: net_recv(this, 1, 0x0011, &buf, 2)
el_recv(f) ==
    /\ variant = "tcp"
    /\ elpc = "recv"
    /\ LET res == RecvResult[f, BytesOf(<<lbuf>>)]
       IN  IF res.r # "OK"
           THEN /\ error_count' = error_count + 1
                /\ poll' = "fail"
                /\ fails_row' = fails_row + 1
                /\ lbuf' = LoadU16(res.buf)
           ELSE /\ error_count' = 0
                /\ poll' = "ok"
                /\ fails_row' = 0
                /\ lbuf' = LoadU16(res.buf)
    /\ elpc' = "unlock"
    /\ eret' = NoEret
    /\ tx' = <<>>
    /\ calls' = <<>>
    /\ disp' = NoDisp
    /\ UNCHANGED <<epc, eargs, elock, buf_addr, estop, stop_reconnect,
                   rc_r, cancel, crc_failed, sw_subs, sub_r, hist,
                   serVars, auxVars, variant>>

\* lines 167-168: unlock
el_unlock ==
    /\ variant = "tcp"
    /\ elpc = "unlock"
    /\ elock' = 0
    /\ elpc' = "psw"
    /\ eret' = NoEret
    /\ tx' = <<>>
    /\ calls' = <<>>
    /\ disp' = NoDisp
    /\ UNCHANGED <<epc, eargs, error_count, lbuf, buf_addr, estop,
                   stop_reconnect, rc_r, poll, fails_row, cancel,
                   crc_failed, sw_subs, sub_r, hist, serVars, auxVars,
                   variant>>

\* lines 169-171: process_statusword(this, 1, &buf) and Sleep(200), whatever
\* the outcome of the poll was; disp records the poll as a response frame
el_psw ==
    /\ variant = "tcp"
    /\ elpc = "psw"
    /\ calls' = eth_process_statusword(sw_subs, POLL_SUBNODE, buf_addr)
    /\ disp' = [id |-> POLL_SUBNODE, idx |-> STATUSWORD_ADDRESS, sidx |-> 0,
                sz |-> 2, data |-> BytesOf(<<lbuf>>), resp |-> (poll = "ok")]
    /\ elpc' = "top"
    /\ eret' = NoEret
    /\ tx' = <<>>
    /\ UNCHANGED <<epc, eargs, elock, error_count, lbuf, buf_addr, estop,
                   stop_reconnect, rc_r, poll, fails_row, cancel,
                   crc_failed, sw_subs, sub_r, hist, serVars, auxVars,
                   variant>>

\* lines 177-179 and 219-221: err: il_net_reconnect is entered
el_err ==
    /\ variant = "tcp"
    /\ elpc = "err"
    /\ estop' = 1
    /\ rc_r' = -1
    /\ elpc' = "rc_check"
    /\ eret' = NoEret
    /\ tx' = <<>>
    /\ calls' = <<>>
    /\ disp' = NoDisp
    /\ UNCHANGED <<epc, eargs, elock, error_count, lbuf, buf_addr,
                   stop_reconnect, poll, fails_row, cancel, crc_failed,
                   sw_subs, sub_r, hist, serVars, auxVars, variant>>

\* seeded fault for C8: the loop condition without stop_reconnect
rc_check_deaf ==
    /\ variant = "tcp"
    /\ elpc = "rc_check"
    /\ elpc' = IF rc_r < 0 THEN "rc_iter" ELSE "rc_ret"
    /\ eret' = NoEret
    /\ tx' = <<>>
    /\ calls' = <<>>
    /\ disp' = NoDisp
    /\ UNCHANGED <<epc, eargs, elock, error_count, lbuf, buf_addr, estop,
                   stop_reconnect, rc_r, poll, fails_row, cancel,
                   crc_failed, sw_subs, sub_r, hist, serVars, auxVars,
                   variant>>

\* line 222: while (r < 0 && this->stop_reconnect == 0)
rc_check ==
    /\ variant = "tcp"
    /\ elpc = "rc_check"
    /\ elpc' = IF rc_r < 0 /\ stop_reconnect = 0 THEN "rc_iter" ELSE "rc_ret"
    /\ eret' = NoEret
    /\ tx' = <<>>
    /\ calls' = <<>>
    /\ disp' = NoDisp
    /\ UNCHANGED <<epc, eargs, elock, error_count, lbuf, buf_addr, estop,
                   stop_reconnect, rc_r, poll, fails_row, cancel,
                   crc_failed, sw_subs, sub_r, hist, serVars, auxVars,
                   variant>>

\* lines 224-235: one iteration: socket, connect, Sleep(1000)
rc_iter(connected) ==
    /\ variant = "tcp"
    /\ elpc = "rc_iter"
    /\ rc_r' = IF connected THEN 0 ELSE -1
    /\ estop' = IF connected THEN 0 ELSE estop
    /\ cancel' = IF cancel >= 0 THEN cancel + 1 ELSE cancel
    /\ elpc' = "rc_check"
    /\ eret' = NoEret
    /\ tx' = <<>>
    /\ calls' = <<>>
    /\ disp' = NoDisp
    /\ UNCHANGED <<epc, eargs, elock, error_count, lbuf, buf_addr,
                   stop_reconnect, poll, fails_row, crc_failed, sw_subs,
                   sub_r, hist, serVars, auxVars, variant>>

\* seeded fault for C17: the listener restarts below the initialisation of
\* error_count
rc_ret_stale_count ==
    /\ variant = "tcp"
    /\ elpc = "rc_ret"
    /\ rc_r' = stop_reconnect
    /\ IF stop_reconnect = 0
       THEN /\ error_count' = error_count
            /\ fails_row' = 0
            /\ elpc' = "top"
       ELSE /\ elpc' = "done"
            /\ UNCHANGED <<error_count, fails_row>>
    /\ eret' = NoEret
    /\ tx' = <<>>
    /\ calls' = <<>>
    /\ disp' = NoDisp
    /\ UNCHANGED <<epc, eargs, elock, lbuf, buf_addr, estop,
                   stop_reconnect, poll, cancel, crc_failed, sw_subs,
                   sub_r, hist, serVars, auxVars, variant>>

\* lines 237-238 and 180-181: r = this->stop_reconnect; the listener
\* restarts when it is 0 and returns otherwise
rc_ret ==
    /\ variant = "tcp"
    /\ elpc = "rc_ret"
    /\ rc_r' = stop_reconnect
    /\ IF stop_reconnect = 0
       THEN /\ error_count' = 0
            /\ fails_row' = 0
            /\ elpc' = "top"
       ELSE /\ elpc' = "done"
            /\ UNCHANGED <<error_count, fails_row>>
    /\ eret' = NoEret
    /\ tx' = <<>>
    /\ calls' = <<>>
    /\ disp' = NoDisp
    /\ UNCHANGED <<epc, eargs, elock, lbuf, buf_addr, estop,
                   stop_reconnect, poll, cancel, crc_failed, sw_subs,
                   sub_r, hist, serVars, auxVars, variant>>

il_net_reconnect == rc_check \/ (\E connected \in BOOLEAN : rc_iter(connected)) \/ rc_ret

listener_eth ==
    \/ el_top
    \/ el_lock
    \/ \E sent \in BOOLEAN : el_send(sent)
    \/ \E f \in EthFrames : el_recv(f)
    \/ el_unlock
    \/ el_psw
    \/ el_err
    \/ il_net_reconnect

\* lines 307-311
il_eth_mon_stop ==
    /\ variant = "tcp"
    /\ stop_reconnect = 0
    /\ stop_reconnect' = 1
    /\ cancel' = IF elpc \in {"rc_check", "rc_iter"} THEN 0 ELSE cancel
    /\ eret' = NoEret
    /\ tx' = <<>>
    /\ calls' = <<>>
    /\ disp' = NoDisp
    /\ UNCHANGED <<epc, eargs, elock, elpc, error_count, lbuf, buf_addr,
                   estop, rc_r, poll, fails_row, crc_failed, sw_subs,
                   sub_r, hist, serVars, auxVars, variant>>

(***************************************************************************)
(* Device monitor: il_net_dev_mon_* (src/ingenialink/net.c) and            *)
(* il_eth_net_dev_mon_* (src/ingenialink/eth/net.c).  The object is a      *)
(* record; its field mon is the handle of the underlying monitor (the TCP  *)
(* structure calls it smon), 0 being NULL.                                 *)
(***************************************************************************)
\* cap on the number of monitors ser_dev_monitor_init hands out
MaxInits == 3

MonKinds == {"serial", "tcp"}
\* the on_evt arguments of start (0 is NULL) and the ctx arguments
MonCbs == 0..2
MonCtxs == 1..2
\* what a field that malloc left uninitialised can hold
MonGarbage == {0, 9}

NoMonRet == [op |-> "none", r |-> "OK", on_evt |-> 0, ctx |-> 0,
             init_ok |-> FALSE, stopped |-> 0]

\* il_net_dev_mon_create / il_eth_net_dev_mon_create: malloc, running = 0
MonInit ==
    /\ mon \in [kind : MonKinds, running : {0}, ctx : MonGarbage,
                on_evt : MonGarbage, mon : MonGarbage]
    /\ mon_ret = NoMonRet
    /\ mon_live = FALSE
    /\ mon_inits = 0

\* il_net_dev_mon_start and il_eth_net_dev_mon_start on the object m;
\* handle is what ser_dev_monitor_init returns (0 when it fails).  The TCP
\* function has no test of on_evt.
dev_mon_start(m, on_evt, ctx, handle) ==
    IF m.running # 0
    THEN [mon |-> m, r |-> "IL_EALREADY"]
    ELSE IF m.kind = "serial" /\ on_evt = 0
    THEN [mon |-> m, r |-> "IL_EINVAL"]
    ELSE LET stored == [m EXCEPT !.ctx = ctx, !.on_evt = on_evt, !.mon = handle]
         IN  IF handle = 0
             THEN [mon |-> stored, r |-> "IL_EFAIL"]
             ELSE [mon |-> [stored EXCEPT !.running = 1], r |-> "OK"]

\* seeded fault for C13: stop that leaves the running flag set
dev_mon_stop_sticky(m) ==
    IF m.running # 0
    THEN [mon |-> m, stopped |-> m.mon]
    ELSE [mon |-> m, stopped |-> 0]

\* il_net_dev_mon_stop and il_eth_net_dev_mon_stop; stopped is the handle
\* given to ser_dev_monitor_stop (0: the function was not called)
dev_mon_stop(m) ==
    IF m.running # 0
    THEN [mon |-> [m EXCEPT !.running = 0], stopped |-> m.mon]
    ELSE [mon |-> m, stopped |-> 0]

\* a call of start; init_ok is the outcome of ser_dev_monitor_init
il_net_dev_mon_start(on_evt, ctx, init_ok) ==
    /\ variant = "mon"
    /\ mon_inits < MaxInits
    /\ LET reaches_init == mon.running = 0 /\ ~(mon.kind = "serial" /\ on_evt = 0)
           handle == IF init_ok THEN mon_inits + 1 ELSE 0
           res == dev_mon_start(mon, on_evt, ctx, handle)
       IN  /\ mon' = res.mon
           /\ mon_ret' = [op |-> "start", r |-> res.r, on_evt |-> on_evt,
                          ctx |-> ctx, init_ok |-> init_ok, stopped |-> 0]
           /\ mon_live' = IF res.r = "OK" THEN TRUE ELSE mon_live
           /\ mon_inits' = IF reaches_init /\ init_ok THEN mon_inits + 1
                           ELSE mon_inits
    /\ UNCHANGED <<labels, lab_map, lab_order, lab_ret>>
    /\ UNCHANGED <<subVars, serVars, ethVars, variant>>

\* a call of stop
il_net_dev_mon_stop ==
    /\ variant = "mon"
    /\ LET res == dev_mon_stop(mon)
       IN  /\ mon' = res.mon
           /\ mon_ret' = [NoMonRet EXCEPT !.op = "stop", !.stopped = res.stopped]
    /\ mon_live' = FALSE
    /\ UNCHANGED mon_inits
    /\ UNCHANGED <<labels, lab_map, lab_order, lab_ret>>
    /\ UNCHANGED <<subVars, serVars, ethVars, variant>>

NextMon ==
    \/ \E on_evt \in MonCbs, ctx \in MonCtxs, init_ok \in BOOLEAN :
          il_net_dev_mon_start(on_evt, ctx, init_ok)
    \/ il_net_dev_mon_stop

(***************************************************************************)
(* Labels dictionary (src/ingenialink/registers.c).  labels->h is a khash  *)
(* table of strings, khash_t(str): open addressing, a power-of-two number  *)
(* of buckets, each bucket empty, deleted or used.  Buckets are numbered   *)
(* from 0.  A language tag is the tuple of its character codes.            *)
(***************************************************************************)
\* "en", "de", "fr"
Langs == { <<101, 110>>, <<100, 101>>, <<102, 114>> }
LabelTexts == {"Speed", "Vitesse"}
NoLabel == ""
\* what the caller's label pointer holds before il_reg_labels_get
LabelBefore == "before"
\* the NULL that ends the array of il_reg_labels_langs_get
LangsEnd == <<>>

EmptyBucket == [flag |-> "empty", key |-> <<>>, val |-> NoLabel]
\* kh_del leaves the key and value pointers in the bucket, freed; nothing
\* reads them again, so the model clears them
DeletedBucket == [flag |-> "del", key |-> <<>>, val |-> NoLabel]

\* kh_init(str): a zeroed table
kh_init ==
    [n_buckets |-> 0, size |-> 0, n_occupied |-> 0, upper_bound |-> 0,
     slots |-> <<>>]

\* __ac_X31_hash_string: h = *s; then h = (h << 5) - h + *s for the rest
\* (the tags of the model are too short to reach the 32-bit wrap-around)
RECURSIVE X31_from(_, _)
X31_from(h, s) == IF s = <<>> THEN h ELSE X31_from(h * 32 - h + Head(s), Tail(s))
kh_str_hash_func(s) == IF s = <<>> THEN 0 ELSE X31_from(Head(s), Tail(s))

\* (khint_t)(n * __ac_HASH_UPPER + 0.5) with __ac_HASH_UPPER = 0.77
HashUpper(n) == (n * 77 + 50) \div 100

RECURSIVE RoundUp(_, _)
RoundUp(x, p) == IF p >= x THEN p ELSE RoundUp(x, 2 * p)
\* kroundup32: the next power of two
kroundup32(x) == RoundUp(x, 1)

kh_end(h) == h.n_buckets
kh_exist(h, k) == h.slots[k].flag = "used"
kh_size(h) == h.size

\* kh_get: the probe loop from bucket i
RECURSIVE kh_get_probe(_, _, _, _, _)
kh_get_probe(h, key, i, step, last) ==
    LET b == h.slots[i]
    IN  IF b.flag # "empty" /\ (b.flag = "del" \/ b.key # key)
        THEN LET i2 == (i + step + 1) % h.n_buckets
             IN  IF i2 = last THEN h.n_buckets
                 ELSE kh_get_probe(h, key, i2, step + 1, last)
        ELSE IF b.flag = "used" THEN i ELSE h.n_buckets

\* kh_get(str, h, key): the bucket of key, or kh_end(h)
kh_get(h, key) ==
    IF h.n_buckets = 0 THEN 0
    ELSE LET i == kh_str_hash_func(key) % h.n_buckets
         IN  kh_get_probe(h, key, i, 0, i)

\* kh_resize: first bucket of the new flags that is still empty
RECURSIVE kh_free_probe(_, _, _, _)
kh_free_probe(newused, i, step, n) ==
    IF i \notin newused THEN i
    ELSE kh_free_probe(newused, (i + step + 1) % n, step + 1, n)

\* kh_resize: the kick-out loop for one key; a key that lands on a bucket
\* whose old content has not moved yet takes its place and sends it on
RECURSIVE kh_kick(_, _, _, _)
kh_kick(st, kv, nNew, nOld) ==
    LET i  == kh_free_probe(st.newused, kh_str_hash_func(kv.key) % nNew, 0, nNew)
        nu == st.newused \cup {i}
    IN  IF i < nOld /\ i \in st.pending
        THEN kh_kick([store |-> [st.store EXCEPT ![i] = kv],
                      pending |-> st.pending \ {i}, newused |-> nu],
                     st.store[i], nNew, nOld)
        ELSE [store |-> [st.store EXCEPT ![i] = kv],
              pending |-> st.pending, newused |-> nu]

\* kh_resize: the loop over the old buckets
RECURSIVE kh_rehash(_, _, _, _)
kh_rehash(j, st, nNew, nOld) ==
    IF j = nOld THEN st
    ELSE IF j \notin st.pending THEN kh_rehash(j + 1, st, nNew, nOld)
    ELSE kh_rehash(j + 1,
                   kh_kick([st EXCEPT !.pending = st.pending \ {j}],
                           st.store[j], nNew, nOld),
                   nNew, nOld)

\* kh_resize(str, h, new_n_buckets), allocation succeeding
kh_resize(h, new_n_buckets) ==
    LET r    == kroundup32(new_n_buckets)
        nNew == IF r < 4 THEN 4 ELSE r
        nOld == h.n_buckets
        m    == IF nOld > nNew THEN nOld ELSE nNew
    IN  IF h.size >= HashUpper(nNew) THEN h
        ELSE LET st0 == [store |-> [i \in 0..(m - 1) |->
                                      IF i < nOld
                                      THEN [key |-> h.slots[i].key,
                                            val |-> h.slots[i].val]
                                      ELSE [key |-> <<>>, val |-> NoLabel]],
                         pending |-> {i \in 0..(nOld - 1) : kh_exist(h, i)},
                         newused |-> {}]
                 st  == kh_rehash(0, st0, nNew, nOld)
             IN  [n_buckets |-> nNew, size |-> h.size, n_occupied |-> h.size,
                  upper_bound |-> HashUpper(nNew),
                  slots |-> [i \in 0..(nNew - 1) |->
                               IF i \in st.newused
                               THEN [flag |-> "used", key |-> st.store[i].key,
                                     val |-> st.store[i].val]
                               ELSE EmptyBucket]]

\* kh_put: the probe loop; site is the last deleted bucket passed
RECURSIVE kh_put_probe(_, _, _, _, _, _)
kh_put_probe(h, key, i, step, last, site) ==
    LET b == h.slots[i]
    IN  IF b.flag # "empty" /\ (b.flag = "del" \/ b.key # key)
        THEN LET site2 == IF b.flag = "del" THEN i ELSE site
                 i2    == (i + step + 1) % h.n_buckets
             IN  IF i2 = last
                 THEN (IF site2 # h.n_buckets THEN site2 ELSE i2)
                 ELSE kh_put_probe(h, key, i2, step + 1, last, site2)
        ELSE IF b.flag = "empty" /\ site # h.n_buckets THEN site ELSE i

\* kh_put(str, h, key, &ret): the table with the key in its bucket, the
\* bucket k, and ret (0: the key was there, 1: empty bucket, 2: deleted)
kh_put(h0, key) ==
    LET h == IF h0.n_occupied >= h0.upper_bound
             THEN (IF h0.n_buckets > 2 * h0.size
                   THEN kh_resize(h0, h0.n_buckets - 1)
                   ELSE kh_resize(h0, h0.n_buckets + 1))
             ELSE h0
        i == kh_str_hash_func(key) % h.n_buckets
        x == kh_put_probe(h, key, i, 0, i, h.n_buckets)
        b == h.slots[x]
    IN  IF b.flag = "empty"
        THEN [h |-> [h EXCEPT !.slots[x] = [b EXCEPT !.flag = "used", !.key = key],
                              !.size = h.size + 1,
                              !.n_occupied = h.n_occupied + 1],
              k |-> x, ret |-> 1]
        ELSE IF b.flag = "del"
        THEN [h |-> [h EXCEPT !.slots[x] = [b EXCEPT !.flag = "used", !.key = key],
                              !.size = h.size + 1],
              k |-> x, ret |-> 2]
        ELSE [h |-> h, k |-> x, ret |-> 0]

\* kh_del(str, h, x)
kh_del(h, x) ==
    IF x # h.n_buckets /\ h.slots[x].flag = "used"
    THEN [h EXCEPT !.slots[x] = DeletedBucket, !.size = h.size - 1]
    ELSE h

\* il_reg_labels_get: r and what *label holds afterwards
labels_get(h, lang, before) ==
    LET k == kh_get(h, lang)
    IN  IF k = kh_end(h) THEN [r |-> "IL_EFAIL", label |-> before]
        ELSE [r |-> "OK", label |-> h.slots[k].val]

\* seeded fault for C14: il_reg_labels_set that keeps the label of a
\* language it already holds
labels_set_keep(h, lang, label) ==
    LET p == kh_put(h, lang)
    IN  IF p.ret # 0
        THEN [p.h EXCEPT !.slots[p.k].key = lang, !.slots[p.k].val = label]
        ELSE p.h

\* il_reg_labels_set (strdup succeeding)
labels_set(h, lang, label) ==
    LET p == kh_put(h, lang)
    IN  IF p.ret # 0
        THEN [p.h EXCEPT !.slots[p.k].key = lang, !.slots[p.k].val = label]
        ELSE [p.h EXCEPT !.slots[p.k].val = label]

\* il_reg_labels_del
labels_del(h, lang) ==
    LET k == kh_get(h, lang)
    IN  IF k # kh_end(h) THEN kh_del(h, k) ELSE h

\* il_reg_labels_nlabels_get
labels_nlabels_get(h) == kh_size(h)

\* il_reg_labels_langs_get, lines 139-146: the loop over the buckets from k
RECURSIVE langs_from(_, _)
langs_from(h, k) ==
    IF k >= kh_end(h) THEN <<LangsEnd>>
    ELSE IF kh_exist(h, k) THEN <<h.slots[k].key>> \o langs_from(h, k + 1)
    ELSE langs_from(h, k + 1)

\* il_reg_labels_langs_get, the array it returns
labels_langs_get(h) == langs_from(h, 0)

NoLabRet == [op |-> "none", lang |-> <<>>, r |-> "OK", label |-> NoLabel,
             n |-> 0, langs |-> <<>>]

\* il_reg_labels_create
LabInit ==
    /\ labels = kh_init
    /\ lab_map = [l \in Langs |-> NoLabel]
    /\ lab_order = <<>>
    /\ lab_ret = NoLabRet

\* the sequence s without the element x
RECURSIVE Without(_, _)
Without(s, x) ==
    IF s = <<>> THEN <<>>
    ELSE IF Head(s) = x THEN Without(Tail(s), x)
    ELSE <<Head(s)>> \o Without(Tail(s), x)

il_reg_labels_set(lang, label) ==
    /\ variant = "labels"
    /\ labels' = labels_set(labels, lang, label)
    /\ lab_map' = [lab_map EXCEPT ![lang] = label]
    /\ lab_order' = IF lab_map[lang] = NoLabel THEN Append(lab_order, lang)
                    ELSE lab_order
    /\ lab_ret' = [NoLabRet EXCEPT !.op = "set", !.lang = lang, !.label = label]
    /\ UNCHANGED <<mon, mon_ret, mon_live, mon_inits>>
    /\ UNCHANGED <<subVars, serVars, ethVars, variant>>

il_reg_labels_del(lang) ==
    /\ variant = "labels"
    /\ labels' = labels_del(labels, lang)
    /\ lab_map' = [lab_map EXCEPT ![lang] = NoLabel]
    /\ lab_order' = Without(lab_order, lang)
    /\ lab_ret' = [NoLabRet EXCEPT !.op = "del", !.lang = lang]
    /\ UNCHANGED <<mon, mon_ret, mon_live, mon_inits>>
    /\ UNCHANGED <<subVars, serVars, ethVars, variant>>

il_reg_labels_get(lang) ==
    /\ variant = "labels"
    /\ LET res == labels_get(labels, lang, LabelBefore)
       IN  lab_ret' = [NoLabRet EXCEPT !.op = "get", !.lang = lang, !.r = res.r,
                                       !.label = res.label]
    /\ UNCHANGED <<labels, lab_map, lab_order>>
    /\ UNCHANGED <<mon, mon_ret, mon_live, mon_inits>>
    /\ UNCHANGED <<subVars, serVars, ethVars, variant>>

il_reg_labels_nlabels_get ==
    /\ variant = "labels"
    /\ lab_ret' = [NoLabRet EXCEPT !.op = "nlabels", !.n = labels_nlabels_get(labels)]
    /\ UNCHANGED <<labels, lab_map, lab_order>>
    /\ UNCHANGED <<mon, mon_ret, mon_live, mon_inits>>
    /\ UNCHANGED <<subVars, serVars, ethVars, variant>>

\* mem_ok is the outcome of the malloc of the array
il_reg_labels_langs_get(mem_ok) ==
    /\ variant = "labels"
    /\ lab_ret' = IF mem_ok
                  THEN [NoLabRet EXCEPT !.op = "langs",
                                        !.langs = labels_langs_get(labels)]
                  ELSE [NoLabRet EXCEPT !.op = "langs", !.r = "NULL"]
    /\ UNCHANGED <<labels, lab_map, lab_order>>
    /\ UNCHANGED <<mon, mon_ret, mon_live, mon_inits>>
    /\ UNCHANGED <<subVars, serVars, ethVars, variant>>

NextLab ==
    \/ \E lang \in Langs, label \in LabelTexts : il_reg_labels_set(lang, label)
    \/ \E lang \in Langs : il_reg_labels_del(lang)
    \/ \E lang \in Langs : il_reg_labels_get(lang)
    \/ il_reg_labels_nlabels_get
    \/ \E mem_ok \in BOOLEAN : il_reg_labels_langs_get(mem_ok)
(***************************************************************************)
(* Specifications.                                                         *)
(***************************************************************************)
\* the parts a run is not about stay in their initial state
EthOff == EthInitWith(0, 0)
MonOff ==
    /\ mon = [kind |-> "serial", running |-> 0, ctx |-> 0, on_evt |-> 0,
              mon |-> 0]
    /\ mon_ret = NoMonRet /\ mon_live = FALSE /\ mon_inits = 0
AuxOff == MonOff /\ LabInit
SessionsOff ==
    /\ SubsInit /\ SerInit /\ EthOff

InitSubs == variant = "subs" /\ SubsInit /\ SerInit /\ EthOff /\ AuxOff

InitSer ==
    /\ variant = "serial"
    /\ sw_subs = SerRegistry
    /\ calls = <<>> /\ disp = NoDisp /\ sub_r = "OK" /\ hist = NoHist
    /\ SerInit
    /\ EthOff
    /\ AuxOff

InitEth ==
    /\ variant = "tcp"
    /\ sw_subs \in EthRegistries
    /\ calls = <<>> /\ disp = NoDisp /\ sub_r = "OK" /\ hist = NoHist
    /\ SerInit
    /\ EthInit
    /\ AuxOff

InitMon == variant = "mon" /\ SessionsOff /\ MonInit /\ LabInit

InitLab == variant = "labels" /\ SessionsOff /\ MonOff /\ LabInit

NextSer ==
    \/ \E t \in Callers : il_net__read(t)
    \/ \E t \in Callers : il_net__write(t)
    \/ \E t \in Callers : il_net_axes_list_get(t)
    \/ listener
    \/ il_net_destroy

NextEth ==
    \/ \E t \in Callers : il_eth_net__read(t)
    \/ \E t \in Callers : il_eth_net__write(t)
    \/ listener_eth
    \/ il_eth_mon_stop

Init == InitSubs \/ InitSer \/ InitEth \/ InitMon \/ InitLab
Next == NextSubsOps \/ NextSer \/ NextEth \/ NextMon \/ NextLab

SpecSubs == InitSubs /\ [][NextSubsOps]_vars
SpecSer == InitSer /\ [][NextSer]_vars
SpecEth == InitEth /\ [][NextEth]_vars
SpecMon == InitMon /\ [][NextMon]_vars
SpecLab == InitLab /\ [][NextLab]_vars
Spec == Init /\ [][Next]_vars

\* a caller inside a call of the serial session takes its next step
InCall(t) ==
    /\ pc[t] # "idle"
    /\ (il_net__read(t) \/ il_net__write(t) \/ il_net_axes_list_get(t))

\* the serial session under fair scheduling and finite timeouts: a thread
\* that can go on again and again does go on (so a thread waiting for a
\* lock gets it once it is released often enough), and a wait of the scan
\* that is entered again and again comes to time out
SpecSerFair ==
    /\ SpecSer
    /\ \A t \in Callers : SF_vars(InCall(t))
    /\ \A t \in Callers : SF_vars(s_wait(t, "timeout"))
    /\ WF_vars(listener)

(***************************************************************************)
(* Properties.                                                             *)
(***************************************************************************)
\* positions of a serial caller between taking and releasing net->lock
SerLocked ==
    {"r_reg", "r_send", "r_relock", "r_wait", "r_wake", "r_unlock", "w_send",
     "s_reg", "s_send", "s_relock", "s_loop", "s_wait", "s_wake", "s_exit"}
SerInFlight == {t \in Callers : pc[t] \in SerLocked}
\* threads of the TCP session that are sending or receiving
EthInFlight ==
    {t \in Callers : epc[t] \in {"send", "recv"}}
    \cup (IF elpc \in {"send", "recv"} THEN {ListenerThread} ELSE {})

\* C1: at most one transaction is in flight on a session: whoever is at a
\* send or await-response step of the serial read, write or axis scan, or
\* of the TCP read, write or listener poll, owns the session lock, and no
\* two threads are at such a step together.
C1_OneTransaction ==
    /\ Cardinality(SerInFlight) <= 1
    /\ \A t \in SerInFlight : lock = t
    /\ Cardinality(EthInFlight) <= 1
    /\ \A t \in EthInFlight : elock = t

\* one caller waits for its response while the other waits for the lock
C1_Witness ==
    \E t \in Callers, u \in Callers :
        pc[t] = "r_wait" /\ pc[u] \in {"r_lock", "w_lock", "s_lock"}

\* C2: between two armings of the sync slot the listener signals at most
\* once, and a frame that process_sync examines while the slot is complete
\* changes neither the slot, the buffer, the received size nor the signal.
C2_FirstWriterWins ==
    [][ /\ nsig' <= 1
        /\ (lpc = "psync" /\ lpc' = "rbuf" /\ sync.complete)
              => UNCHANGED <<sync, sbuf, srecvd, woken, nsig>> ]_vars

\* a read was completed by one frame and a later frame was ignored, while
\* another caller is waiting to start its own read
C2_Witness ==
    /\ nsig = 1 /\ late /\ sync.recvd /\ sync.complete
    /\ \E u \in Callers : pc[u] = "r_lock"

\* C3: once il_net_destroy has returned the listener has terminated and no
\* statusword callback has run since; and while il_net_destroy waits in the
\* join, the listener has returned or can still take a step, so that it
\* comes to observe stop.
C3_CloseJoinsListener ==
    /\ dpc = "closed" => (lpc = "done" /\ ~cb_after_close)
    /\ dpc = "join" => (lpc = "done" \/ ENABLED listener)

\* C4: after a successful il_net__sw_subscribe(id, ..) followed by
\* il_net__sw_unsubscribe(id) the subscriber count is the one before the
\* subscribe, and a statusword dispatch for id that follows invokes no
\* callback.
C4_SubscribeUnsubscribe ==
    /\ hist.phase \in {"unsub", "disp"} => sw_subs.cnt = hist.cnt0
    /\ hist.phase = "disp" => calls = <<>>

\* the 16-bit value of a dispatched frame: the serial data are big-endian,
\* the TCP payload holds the word in host order
FrameValue ==
    IF variant = "tcp" THEN disp.data[1] + 256 * disp.data[2]
    ELSE 256 * disp.data[1] + disp.data[2]
IsStatusword ==
    IF variant = "tcp" THEN disp.idx = STATUSWORD_ADDRESS
    ELSE disp.idx = STATUSWORD_IDX /\ disp.sidx = STATUSWORD_SIDX
\* number of calls made to callback cb
NCalls(cb) == Cardinality({k \in 1..Len(calls) : calls[k].cb = cb})
\* number of subscribers (id, cb)
NSubscribed(id, cb) ==
    Cardinality({i \in 1..sw_subs.cnt : sw_subs.subs[i] = [id |-> id, cb |-> cb]})

\* C5: when a response frame is dispatched, a statusword frame calls every
\* subscriber of the frame's id exactly once, with the frame's 16-bit
\* value, and nobody else; any other frame calls nobody.  On both variants.
C5_FanOut ==
    (disp # NoDisp /\ disp.resp) =>
        IF IsStatusword
        THEN /\ \A cb \in 0..2 : NCalls(cb) = NSubscribed(disp.id, cb)
             /\ \A k \in 1..Len(calls) : calls[k].sw = FrameValue
        ELSE calls = <<>>

\* C6: after a successful poll of the TCP listener every subscriber of id 1
\* is called with the 16-bit value the device returned in that poll.
C6_PollDelivers ==
    (variant = "tcp" /\ disp # NoDisp /\ disp.resp) =>
        \A i \in 1..sw_subs.cnt :
            sw_subs.subs[i].id = POLL_SUBNODE =>
                \E k \in 1..Len(calls) :
                    calls[k] = [cb |-> sw_subs.subs[i].cb, sw |-> lbuf]

\* C7: the TCP listener goes to reconnect exactly when 10 polls in a row
\* have failed: a failed send or receive adds 1 to error_count, a
\* successful poll sets it to 0, the loop goes on below 10 failures in a
\* row and leaves for reconnect at 10.
C7_ReconnectAfterTen ==
    [][ /\ (elpc = "top" /\ elpc' = "err") => fails_row = 10
        /\ (elpc = "top" /\ elpc' = "lock") => fails_row < 10
        /\ (elpc = "top" /\ elpc' = "done") => FALSE
        /\ (elpc \in {"send", "recv"} /\ poll' = "fail")
              => error_count' = error_count + 1
        /\ (elpc = "recv" /\ poll' = "ok") => error_count' = 0 ]_vars

\* reconnect is entered after a successful poll followed by 10 failures
C7_Witness == elpc = "err" /\ fails_row = 10 /\ lbuf = 567

\* C8: once stop_reconnect has been set while the listener is in the
\* reconnect loop, the loop begins at most one more iteration, the
\* listener does not go back to polling, and no callback is invoked.
C8_ReconnectCancellable ==
    cancel >= 0 =>
        /\ cancel <= 1
        /\ elpc \in {"rc_check", "rc_iter", "rc_ret", "done"}
        /\ calls = <<>>

\* the listener has returned after one more iteration of the loop
C8_Witness == cancel = 1 /\ elpc = "done"

\* the frame's CRC word differs from the CRC of its first 6 words
BadCrc(f) == FrameCrc[f] # f[ETH_MCB_CRC_POS + 1]
\* the cmd field of the frame
CmdOf(f) == (f[ETH_MCB_HDR_L_POS + 1] \div 2) % 8
\* the first sz bytes of the frame's payload
PayloadBytes(f, sz) == SubSeq(BytesOf(SubSeq(f, 3, 6)), 1, sz)

\* C9: a TCP read or write whose received frame has a wrong CRC word
\* returns IL_EIO, leaves the caller's buffer and the session (stop flags,
\* listener, registry) as they were and releases the lock; and the call
\* that follows such a failure succeeds when its frame is a correct
\* acknowledgement.
C9_CrcMismatch ==
    [][ \A t \in Callers :
          (epc[t] = "recv" /\ epc'[t] = "idle") =>
             /\ BadCrc(eret'.rx) =>
                   /\ eret'.r = "IL_EIO"
                   /\ eret'.err.kind = "CRC"
                   /\ eret'.buf = eret'.buf0
                   /\ elock' = 0
                   /\ UNCHANGED <<estop, stop_reconnect, error_count, elpc,
                                  lbuf, sw_subs>>
             /\ (crc_failed /\ ~BadCrc(eret'.rx)
                   /\ CmdOf(eret'.rx) = ETH_MCB_CMD_ACK) =>
                   /\ eret'.r = "OK"
                   /\ eret'.op = "read" =>
                         eret'.buf = PayloadBytes(eret'.rx, Len(eret'.buf0)) ]_vars

\* a call succeeded right after a call that failed on the CRC
C9_Witness == eret.t # 0 /\ eret.r = "OK" /\ eret.after_bad

\* C10: a TCP read or write whose received frame has a valid CRC and a cmd
\* other than ACK returns IL_EIO, reports the first four payload bytes read
\* as a big-endian number, and leaves the caller's buffer as it was; only
\* a frame with cmd = ACK makes a call return success.
C10_Nack ==
    (eret.t # 0 /\ eret.rx # <<>>) =>
        /\ (~BadCrc(eret.rx) /\ CmdOf(eret.rx) # ETH_MCB_CMD_ACK) =>
              /\ eret.r = "IL_EIO"
              /\ eret.err = [kind |-> "NACK",
                             code |-> PayloadBytes(eret.rx, 4)]
              /\ eret.buf = eret.buf0
        /\ eret.r = "OK" => CmdOf(eret.rx) = ETH_MCB_CMD_ACK

\* a read was refused with the error code 0xDEADBEEF
C10_Witness ==
    /\ eret.op = "read"
    /\ eret.err = [kind |-> "NACK", code |-> <<222, 173, 190, 239>>]

\* the subnode and address fields of a frame's header
SubnodeOf(f) == f[1] % 16
AddressOf(f) == f[ETH_MCB_HDR_L_POS + 1] \div 16

\* C11: a TCP read or write returns success only when the frame it received
\* carries the subnode and the address of the frame it sent in the same
\* transaction.
C11_ResponseMatchesRequest ==
    [][ \A t \in Callers :
          (epc[t] = "recv" /\ epc'[t] = "idle" /\ eret'.r = "OK") =>
             /\ SubnodeOf(eret'.rx) = eargs[t].subnode
             /\ AddressOf(eret'.rx) = eargs[t].address % 4096 ]_vars

\* C12: a serial read, write or axis scan that a caller issues while the
\* session state is not OPERATIVE returns at once, IL_ESTATE for a read or
\* a write and NULL for the scan; the caller takes no lock, reaches no
\* ser_write, and the sync slot, its buffer and its received size stay as
\* they were.
C12_NotOperative ==
    [][ \A t \in Callers :
          (pc[t] = "idle" /\ net_state # "OPERATIVE") =>
             /\ pc'[t] = "idle"
             /\ ret'.t = t =>
                   /\ ret'.r = (IF ret'.op = "scan" THEN "NULL" ELSE "IL_ESTATE")
                   /\ ret'.lst = <<>>
                   /\ UNCHANGED <<lock, sync_lock, sync, sbuf, srecvd, woken>> ]_vars

\* a read was refused while the other caller was still inside a transaction
\* that had started before the session became faulty
C12_Witness ==
    /\ ret.op = "read" /\ ret.r = "IL_ESTATE"
    /\ net_state = "FAULTY"
    /\ \E u \in Callers : u # ret.t /\ pc[u] \in SerLocked

\* C13: the device monitor of either variant has one start/stop lifecycle.
\* A start while running returns IL_EALREADY and leaves the stored
\* callback, context and underlying monitor as they were; a stop while not
\* running changes nothing and stops no monitor; after every call running
\* is 1 exactly when the latest successful start has not been followed by
\* a stop; and a start on a stopped monitor, with a callback and with
\* ser_dev_monitor_init succeeding, returns 0 and sets running.
C13_MonitorLifecycle ==
    [][ /\ (mon_ret'.op = "start" /\ mon.running = 1) =>
              /\ mon_ret'.r = "IL_EALREADY"
              /\ mon' = mon
        /\ (mon_ret'.op = "stop" /\ mon.running = 0) =>
              /\ mon' = mon
              /\ mon_ret'.stopped = 0
        /\ (mon_ret'.op = "stop" /\ mon.running = 1) =>
              mon_ret'.stopped = mon.mon
        /\ (mon'.running = 1) <=> mon_live'
        /\ (mon_ret'.op = "start" /\ mon.running = 0 /\ mon_ret'.on_evt # 0
               /\ mon_ret'.init_ok) =>
              /\ mon_ret'.r = "OK"
              /\ mon'.running = 1
              /\ mon'.on_evt = mon_ret'.on_evt /\ mon'.ctx = mon_ret'.ctx ]_vars

\* a monitor that was started, stopped and started again refuses a further
\* start
C13_Witness ==
    /\ mon_ret.op = "start" /\ mon_ret.r = "IL_EALREADY"
    /\ mon.running = 1 /\ mon.mon = 2

\* the languages that are present according to the calls made so far
LangsPresent == {l \in Langs : lab_map[l] # NoLabel}

\* C14: the labels behave as a map.  A get of a language that was set and
\* not deleted since returns 0 and the label of the latest set; a get of
\* any other language returns an error and leaves the caller's pointer as
\* it was; nlabels_get is the number of languages present; the array of
\* langs_get holds every language present exactly once and then NULL.
C14_LabelsMap ==
    /\ lab_ret.op = "get" =>
          IF lab_ret.lang \in LangsPresent
          THEN lab_ret.r = "OK" /\ lab_ret.label = lab_map[lab_ret.lang]
          ELSE lab_ret.r # "OK" /\ lab_ret.label = LabelBefore
    /\ lab_ret.op = "nlabels" => lab_ret.n = Cardinality(LangsPresent)
    /\ (lab_ret.op = "langs" /\ lab_ret.r = "OK") =>
          LET n == Len(lab_ret.langs)
          IN  /\ n = Cardinality(LangsPresent) + 1
              /\ lab_ret.langs[n] = LangsEnd
              /\ \A l \in LangsPresent :
                    Cardinality({i \in 1..(n - 1) : lab_ret.langs[i] = l}) = 1

\* a label was replaced and read back from a table that has grown to 8
\* buckets and holds a deleted bucket
C14_Witness ==
    /\ lab_ret.op = "get" /\ lab_ret.r = "OK" /\ lab_ret.label = "Vitesse"
    /\ labels.n_buckets = 8
    /\ \E k \in 0..7 : labels.slots[k].flag = "del"
    /\ Cardinality(LangsPresent) = 2

\* C15: the array of il_reg_labels_langs_get lists the languages in the
\* order in which each was first set, and two calls with no set or delete
\* between them return the same array.
C15_InsertionOrder ==
    [][ /\ (lab_ret'.op = "langs" /\ lab_ret'.r = "OK") =>
              lab_ret'.langs = Append(lab_order, LangsEnd)
        /\ (lab_ret.op = "langs" /\ lab_ret.r = "OK"
               /\ lab_ret'.op = "langs" /\ lab_ret'.r = "OK") =>
              lab_ret'.langs = lab_ret.langs ]_vars

\* C16: a TCP write of more than 8 bytes returns IL_ENOTSUP and hands no
\* frame to send(); and every frame handed to send() has the pending bit 0
\* and, for a write, carries all the bytes of the caller's payload.
C16_NoMultiFrame ==
    [][ /\ \A t \in Callers :
             (epc[t] = "send" /\ epc'[t] # "send" /\ eargs[t].sz > SIZEOF_D) =>
                /\ tx' = <<>>
                /\ eret'.t = t /\ eret'.r = "IL_ENOTSUP"
        /\ tx' # <<>> => tx'[ETH_MCB_HDR_L_POS + 1] % 2 = 0
        /\ \A t \in Callers :
             (epc[t] = "send" /\ tx' # <<>> /\ eargs[t].op = "write") =>
                /\ eargs[t].sz <= SIZEOF_D
                /\ PayloadBytes(tx', eargs[t].sz) = eargs[t].data ]_vars

\* C17, as stated: il_net_reconnect leaves its loop only after a connect
\* that succeeded or with stop_reconnect set, and goes on trying otherwise;
\* when it returns after a connect that succeeded, the listener resumes at
\* the top of its loop with error_count = 0 and goes on to poll.
C17_ReconnectResumes ==
    [][ /\ (elpc = "rc_check" /\ elpc' = "rc_ret") =>
              (rc_r >= 0 \/ stop_reconnect # 0)
        /\ (elpc = "rc_check" /\ rc_r < 0 /\ stop_reconnect = 0) =>
              elpc' \in {"rc_check", "rc_iter"}
        /\ (elpc = "rc_ret" /\ elpc' # "rc_ret" /\ rc_r >= 0) =>
              /\ elpc' = "top"
              /\ error_count' = 0
        /\ (elpc = "top" /\ elpc' # "top" /\ error_count = 0) => elpc' = "lock" ]_vars

\* C17, amended: the same, for a return at which stop_reconnect is still 0
\* (then the latest connect succeeded); when stop_reconnect has been set by
\* the time il_net_reconnect returns, the listener returns, also after a
\* connect that succeeded.
C17_ReconnectResumesUnlessStopped ==
    [][ /\ (elpc = "rc_check" /\ elpc' = "rc_ret") =>
              (rc_r >= 0 \/ stop_reconnect # 0)
        /\ (elpc = "rc_check" /\ rc_r < 0 /\ stop_reconnect = 0) =>
              elpc' \in {"rc_check", "rc_iter"}
        /\ (elpc = "rc_ret" /\ elpc' # "rc_ret" /\ stop_reconnect = 0) =>
              /\ rc_r >= 0
              /\ elpc' = "top"
              /\ error_count' = 0
        /\ (elpc = "rc_ret" /\ elpc' # "rc_ret" /\ stop_reconnect # 0) =>
              elpc' = "done"
        /\ (elpc = "top" /\ elpc' # "top" /\ error_count = 0) => elpc' = "lock" ]_vars

\* the listener is back at the top of its loop after a reconnect: it has
\* polled successfully before (buf holds 0x0237), no poll belongs to the
\* iteration about to start, and the error counter is 0
C17_Witness ==
    /\ elpc = "top" /\ poll = "none" /\ lbuf = 567 /\ error_count = 0
    /\ estop = 0 /\ stop_reconnect = 0 /\ rc_r = 0

\* C18: process_sync completes the slot for a response frame exactly when
\* the slot is open, its id is the frame's id or 0, idx and sidx are the
\* frame's and its size is at least the frame's.  Then it copies the
\* frame's sz payload bytes, records sz as the received size (where the
\* slot has a place for it), sets complete and signals once; otherwise
\* the slot, the buffer, the received size and the signal stay as they were.
C18_SyncMatch ==
    [][ (lpc = "psync" /\ lpc' = "rbuf") =>
          LET f == Head(rbuf)
              m == /\ ~sync.complete
                   /\ (sync.id = f.id \/ sync.id = 0)
                   /\ sync.idx = f.idx /\ sync.sidx = f.sidx
                   /\ sync.sz >= f.sz
          IN  IF m
              THEN /\ sbuf' = SubSeq(f.data, 1, f.sz)
                   /\ Len(sbuf') = f.sz
                   /\ sync.recvd => srecvd' = f.sz
                   /\ sync' = [sync EXCEPT !.complete = TRUE]
                   /\ nsig' = nsig + 1
              ELSE UNCHANGED <<sync, sbuf, srecvd, nsig, woken>> ]_vars

\* a 2-byte statusword completed a read into a 4-byte buffer, and a later
\* response was left alone
C18_Witness ==
    /\ sync.sz = 4 /\ sync.complete /\ sbuf = <<18, 52>> /\ srecvd = 2
    /\ nsig = 1 /\ late /\ lpc = "rbuf"

\* C19: il_net__read returns 0 only when, during the call, process_sync
\* copied a matching response into the caller's buffer; a wait that times
\* out makes it return IL_ETIMEDOUT; a request that cannot be sent makes
\* it return the transport's error without waiting.
C19_ReadOutcome ==
    [][ \A t \in Callers :
          /\ (ret'.t = t /\ ret'.op = "read" /\ ret'.r = "OK") =>
                /\ nsig' >= 1
                /\ ret'.buf # <<>>
                /\ ret'.recvd = Len(ret'.buf)
          /\ (pc[t] = "r_wait" /\ ev' = "timeout") => rv'[t] = "IL_ETIMEDOUT"
          /\ (pc[t] = "r_send" /\ ev' = "send_failed") =>
                /\ rv'[t] = "SER_ERR"
                /\ pc'[t] = "r_unlock"
          /\ (pc[t] = "r_unlock" /\ ret'.t = t) => ret'.r = rv[t] ]_vars

\* C20: the serial listener goes on with its loop when ser_read_wait times
\* out; on a failed read, a failed wait or a read that gives no bytes it
\* takes state_lock, sets the state to FAULTY and returns; the state
\* changes in no other way, so it is FAULTY only once the listener has
\* returned like this, and it stays FAULTY.
C20_ListenerFaulty ==
    [][ /\ (lpc = "read" /\ ev' = "EEMPTY_TIMEDOUT") =>
              (lpc' = "loop" /\ net_state' = net_state)
        /\ (lpc = "read" /\ ev' \in {"EEMPTY_ERR", "ERR", "ZERO"}) => lpc' = "err"
        /\ lpc = "err" => (state_lock = 0 /\ lpc' \in {"err", "faulty"})
        /\ (lpc = "faulty" /\ lpc' # "faulty") =>
              (net_state' = "FAULTY" /\ lpc' = "done" /\ state_lock' = 0)
        /\ net_state' # net_state =>
              (state_lock = ListenerThread /\ net_state' = "FAULTY")
        /\ net_state = "FAULTY" => (lpc = "done" /\ net_state' = "FAULTY") ]_vars

\* the session became faulty while a caller was waiting for its response
C20_Witness ==
    /\ net_state = "FAULTY" /\ lpc = "done" /\ stop = 0
    /\ \E t \in Callers : pc[t] = "r_wait"

RECURSIVE Reverse(_)
Reverse(s) == IF s = <<>> THEN <<>> ELSE Append(Reverse(Tail(s)), Head(s))

\* the scanning thread t takes the step of its loop that finds the slot
\* complete
ScanTakes(t) ==
    /\ pc[t] = "s_loop" /\ sync.complete
    /\ <<pc[t], slst, found, sync>>' # <<pc[t], slst, found, sync>>

\* what C21 says of the steps of the scan other than the one that takes a
\* completed response, and of the ids it reports
C21_ScanRest(t) ==
    /\ (pc[t] = "s_wait" /\ ev' = "timeout") =>
          (rv'[t] # "OK" /\ pc'[t] = "s_wake")
    /\ (pc[t] = "s_wake" /\ rv[t] # "OK" /\ pc'[t] # "s_wake") =>
          (pc'[t] = "s_exit" /\ found' = found /\ slst' = slst)
    /\ (pc[t] \in {"s_loop", "s_wait", "s_wake", "s_exit"} /\ ~ScanTakes(t)) =>
          (found' = found \/ pc'[t] = "idle")
    /\ \A k \in 1..Len(found') : \E j \in 1..Len(decoded') : decoded'[j] = found'[k]

\* C21 as stated: every completed slot the scan finds gives one id, which
\* is put in front of the list and given once to on_found, and the slot
\* is armed again; the scan leaves its loop on the first wait that times
\* out; the list it returns holds the ids given to on_found, each decoded
\* from a response to the broadcast.
C21_ScanYieldsEachId ==
    [][ \A t \in Callers :
          /\ ScanTakes(t) =>
                /\ slst' = <<sbuf[1]>> \o slst
                /\ found' = Append(found, sbuf[1])
                /\ ~sync'.complete
          /\ C21_ScanRest(t)
          /\ (pc[t] = "s_exit" /\ ret'.t = t) => ret'.lst = Reverse(found) ]_vars

\* C21 with the allocation failure of lines 726-730: a completed slot the
\* scan finds is always armed again, and gives one id to the list and to
\* on_found unless malloc fails; then nothing is reported for it, the list
\* built so far is destroyed and the scan returns NULL at once.  A scan
\* that ends by a wait that timed out or failed returns the ids given to
\* on_found.
C21_ScanYieldsEachIdUnlessNoMem ==
    [][ \A t \in Callers :
          /\ ScanTakes(t) =>
                /\ ~sync'.complete
                /\ \/ /\ slst' = <<sbuf[1]>> \o slst
                      /\ found' = Append(found, sbuf[1])
                      /\ pc'[t] = "s_loop"
                   \/ /\ slst' = <<>>
                      /\ found' = found
                      /\ pc'[t] = "s_exit"
                      /\ rv'[t] = "OK"
          /\ C21_ScanRest(t)
          /\ (pc[t] = "s_exit" /\ ret'.t = t) =>
                ret'.lst = IF rv[t] = "OK" THEN <<>> ELSE Reverse(found) ]_vars

\* a scan returned two ids after its wait timed out
C21_Witness ==
    /\ ret.op = "scan" /\ Len(ret.lst) = 2 /\ ret.lst[1] # ret.lst[2]

\* the threads of the serial session that can own a lock
SerThreads == Callers \cup {ListenerThread}

\* one step keeps the order of the locks: net->lock is taken by a thread
\* that holds neither sync.lock nor state_lock, sync.lock is taken by a
\* caller only under net->lock, and a thread that holds state_lock takes
\* no lock
LockOrderStep ==
    \A x \in SerThreads :
        /\ (lock # x /\ lock' = x) => (sync_lock # x /\ state_lock # x)
        /\ (sync_lock # x /\ sync_lock' = x) =>
              (state_lock # x /\ (x \in Callers => lock = x))
        /\ (state_lock # x /\ state_lock' = x) => (lock # x /\ sync_lock # x)
        /\ (state_lock = x /\ state_lock' = x) =>
              /\ lock' = x => lock = x
              /\ sync_lock' = x => sync_lock = x

\* a thread is waiting for sync.lock while the lock belongs to a call
\* that has returned, so that nobody will release it
LockDeadlock ==
    /\ sync_lock \in Callers /\ pc[sync_lock] = "idle"
    /\ \/ lpc = "psync"
       \/ \E t \in Callers : pc[t] \in {"r_reg", "s_reg"}

\* C22: the locks are taken in the order net->lock, then sync.lock;
\* state_lock is a leaf; and no thread is left waiting for a lock that
\* will never be released.
C22_LockOrderNoDeadlock ==
    [][ LockOrderStep /\ ~LockDeadlock' ]_vars

\* the serial listener is in ser_read / ser_read_wait while a caller is in
\* ser_write on the same port
SerOverlap ==
    /\ variant = "serial" /\ lpc = "read"
    /\ \E t \in Callers : pc[t] \in {"r_send", "w_send", "s_send"}

\* il_net_reconnect is replacing the socket while a caller is in net_send
\* or net_recv
ReconnectOverlap ==
    /\ variant = "tcp" /\ elpc = "rc_iter"
    /\ \E t \in Callers : epc[t] \in {"send", "recv"}

\* the poll of listener_eth is in net_send or net_recv while a caller is
\* in net_send or net_recv
PollOverlap ==
    /\ variant = "tcp" /\ elpc \in {"send", "recv"}
    /\ \E t \in Callers : epc[t] \in {"send", "recv"}

\* C23: the listener and a caller never use the transport of a session at
\* the same time: no read of the serial listener together with a caller's
\* write, no reconnect and no poll of the TCP listener together with a
\* caller's send or receive.
C23_TransportExclusive ==
    ~SerOverlap /\ ~ReconnectOverlap /\ ~PollOverlap

\* C24: il_net__sw_subscribe stores the new entry at index cnt and adds
\* one to cnt, after doubling the capacity when cnt equals it; so the
\* capacity on record is SW_SUBS_SZ_DEF times a power of two, is the
\* number of entries allocated, and is never below cnt; a failed
\* reallocation returns IL_ENOMEM and changes nothing.
C24_CapacityDoubles ==
    [][ /\ sw_subs'.cnt = sw_subs.cnt + 1 =>
              /\ sw_subs'.subs[sw_subs.cnt + 1].id \in AxisIds
              /\ sw_subs'.sz = IF sw_subs.cnt = sw_subs.sz
                               THEN 2 * sw_subs.sz ELSE sw_subs.sz
        /\ (sub_r' = "IL_ENOMEM" /\ sub_r # sub_r') => sw_subs' = sw_subs
        /\ \E k \in 0..MaxSubs : sw_subs'.sz = SW_SUBS_SZ_DEF * Pow2(k)
        /\ sw_subs'.sz = sw_subs'.alloc
        /\ sw_subs'.cnt <= sw_subs'.sz ]_vars

\* CRC-CCITT with polynomial 0x1021, bit by bit: one byte into the CRC
RECURSIVE CrcBits(_, _)
CrcBits(crc, n) ==
    IF n = 0 THEN crc
    ELSE LET next == IF crc >= 32768 THEN BitXor((crc * 2) % 65536, 4129)
                     ELSE (crc * 2) % 65536
         IN  IF next >= 0 THEN CrcBits(next, n - 1) ELSE 0
RECURSIVE CrcCcitt(_, _)
CrcCcitt(crc, bytes) ==
    IF bytes = <<>> THEN crc
    ELSE LET next == CrcBits(BitXor(crc, Head(bytes) * 256), 8)
         IN  IF next >= 0 THEN CrcCcitt(next, Tail(bytes)) ELSE 0

\* the payload of sz bytes, padded with zeros to the four data words
ZeroPadded(data, sz) ==
    [w \in 1..4 |-> (IF 2 * w - 1 <= sz THEN data[2 * w - 1] ELSE 0)
                    + 256 * (IF 2 * w <= sz THEN data[2 * w] ELSE 0)]

\* the frame f is the request of C25 for (subnode, address, data, sz)
IsRequestFrame(f, subnode, address, data, sz) ==
    LET cmd == IF sz # 0 THEN ETH_MCB_CMD_WRITE ELSE ETH_MCB_CMD_READ
    IN  /\ f[1] = BitOr(ETH_MCB_NODE_DFLT * 16, subnode)
        /\ f[2] = U16(BitOr(BitOr(address * 16, cmd * 2), 0))
        /\ sz <= SIZEOF_D
        /\ SubSeq(f, 3, 6) = ZeroPadded(data, sz)
        /\ f[7] = CrcCcitt(0, BytesOf(SubSeq(f, 1, 6)))
        /\ SubnodeOf(f) = subnode
        /\ AddressOf(f) = address
        /\ CmdOf(f) = cmd

\* C25: every frame net_send hands to send() has word 0 = (node << 4) |
\* subnode, word 1 = (address << 4) | (cmd << 1) with cmd WRITE for a
\* payload and READ for none, words 2..5 = the payload padded with zeros
\* to 8 bytes and word 6 = the CRC-CCITT of the first 12 bytes; and the
\* subnode, the address and the cmd can be read back from the header.
C25_RequestFrame ==
    [][ /\ \A t \in Callers :
             (epc[t] = "send" /\ tx' # <<>>) =>
                IF eargs[t].op = "read"
                THEN IsRequestFrame(tx', eargs[t].subnode, eargs[t].address, <<>>, 0)
                ELSE IsRequestFrame(tx', eargs[t].subnode, eargs[t].address,
                                    eargs[t].data, eargs[t].sz)
        /\ (elpc = "send" /\ tx' # <<>>) =>
              IsRequestFrame(tx', POLL_SUBNODE, STATUSWORD_ADDRESS, <<>>, 0) ]_vars

\* C26: while no caller holds net->lock the sync slot is complete, and
\* process_sync never stores a response through the buffer pointer of a
\* call that has returned.
C26_SlotClosedWhenIdle ==
    /\ lock = 0 => sync.complete
    /\ ~stale_write

\* C27: a thread that is not inside a session operation holds no lock of
\* the session: callers outside il_net__read, il_net__write,
\* il_net_axes_list_get, il_eth_net__read and il_eth_net__write, and the
\* TCP listener outside the locked part of its poll.
C27_LocksReleased ==
    /\ \A t \in Callers :
          /\ pc[t] = "idle" => (lock # t /\ sync_lock # t /\ state_lock # t)
          /\ epc[t] = "idle" => elock # t
    /\ elpc \in {"top", "lock", "psw", "err", "rc_check", "rc_iter", "rc_ret", "done"}
          => elock # ListenerThread
    /\ lpc = "done" => state_lock # ListenerThread

\* C28: under fair scheduling and finite timeouts every call of
\* il_net__read, il_net__write and il_net_axes_list_get on the serial
\* session returns.
C28_CallsReturn ==
    \A t \in Callers : (pc[t] # "idle") ~> (pc[t] = "idle")

\* the elements of a sequence
Elems(s) == {s[k] : k \in 1..Len(s)}

\* C29: a scan that ends by a wait that timed out returns, and has given
\* to on_found, the id of every response to its broadcast that the
\* listener decoded while the scan was open.
C29_ScanLosesNoResponder ==
    [][ \A t \in Callers :
          (pc[t] = "s_exit" /\ ret'.t = t /\ rv[t] = "OSAL_ETIMEDOUT") =>
              /\ Elems(decoded) \subseteq Elems(ret'.lst)
              /\ Elems(decoded) \subseteq Elems(found) ]_vars

\* C30: the TCP listener calls no statusword callback after a poll whose
\* send or receive failed.
C30_NoCallbackOnFailedPoll ==
    [][ (elpc = "psw" /\ poll = "fail") => calls' = <<>> ]_vars

====
